---- MODULE Spec2Model ----
(***************************************************************************)
(* Model of the seven-healer backend: the collections, the bearer tokens   *)
(* and the handlers of app/services (auth, blog, openings, projects), with *)
(* the helpers of app/utils.py they call.                                  *)
(***************************************************************************)
EXTENDS Integers, Sequences, FiniteSets, TLC

VARIABLES
    users,      \* the users collection: id -> stored document
    nextId,     \* ids handed out so far + 1 (stands for uuid4: never reused)
    tokens,     \* signed tokens that login has returned to clients
    now,        \* the clock, in minutes
    blogs,              \* the blogs collection: id -> stored document
    job_openings,       \* the job_openings collection
    job_applications,   \* the job_applications collection
    projects,           \* the projects collection
    nextDocId,  \* ids handed out to those four so far + 1 (uuid4)
    req,        \* the request handled last
    resp,       \* its response
    outbox      \* the messages the SMTP server has accepted, in order

documents == <<blogs, job_openings, job_applications, projects, nextDocId>>

vars == <<users, nextId, tokens, now, documents, req, resp, outbox>>

-----------------------------------------------------------------------------
(* Bounds of the model *)

MaxUsers == 2       \* user documents ever created
MaxTokens == 1      \* tokens in clients' hands
MaxTime == 60       \* the clock stops here
MaxDocs == 1        \* blogs, openings, applications and projects ever created
MaxSections == 2    \* sections of a blog
MaxBlogs == 3       \* blogs ever created where slugs are studied
MaxApplications == 2 \* applications ever stored where duplicates are studied
MaxOpenings == 2    \* openings ever created where job ids are studied
MaxProcesses == 2   \* server processes that handle requests at the same time
MaxTitleLen == 5    \* characters of a title given to generate_slug
MaxMails == 2       \* messages in the outbox when a submission is still accepted
MaxFiles == 2       \* files attached to one submission
MaxStamped == 1     \* records of all kinds ever created where timestamps are studied

-----------------------------------------------------------------------------
(* Configuration: app/core/config.py *)

SUPERUSER_ID == "superuser123"
SUPERUSER_EMAIL == "admin@sevenhealerconsultants.in"
SUPERUSER_PASSWORD == "admin123"
ACCESS_TOKEN_EXPIRE_MINUTES == 30

(* app.enum.UserRoles: the module is not among the sources; its two values
   are the ones the schemas, the test and the specification use. *)
UserRoles == {"admin", "user"}
ADMIN == "admin"
USER == "user"

-----------------------------------------------------------------------------
(* Inputs *)

EmailJohn == "john.doe@example.com"
EmailJohnCaps == "John.Doe@example.com"
Emails == {SUPERUSER_EMAIL, EmailJohn, EmailJohnCaps}

PasswordJohn == "password123"
PasswordShort == "abc"
Passwords == {SUPERUSER_PASSWORD, PasswordJohn}

PhoneGood == "+1234567890"
PhoneBad == "12345"

FirstName == "John"
LastName == "Doe"

-----------------------------------------------------------------------------
(* Strings.  A string is named by its text; Chars gives its characters, and
   the string functions below compute on the characters.  Str names the
   string with the given characters. *)

Chars ==
    "admin@sevenhealerconsultants.in" :> <<"a","d","m","i","n","@","s","e","v","e","n","h","e","a","l","e","r","c","o","n","s","u","l","t","a","n","t","s",".","i","n">>
    @@ "john.doe@example.com" :> <<"j","o","h","n",".","d","o","e","@","e","x","a","m","p","l","e",".","c","o","m">>
    @@ "John.Doe@example.com" :> <<"J","o","h","n",".","D","o","e","@","e","x","a","m","p","l","e",".","c","o","m">>
    @@ "admin123" :> <<"a","d","m","i","n","1","2","3">>
    @@ "password123" :> <<"p","a","s","s","w","o","r","d","1","2","3">>
    @@ "abc" :> <<"a","b","c">>
    @@ "$2b$admin123" :> <<"$","2","b","$","a","d","m","i","n","1","2","3">>
    @@ "$2b$password123" :> <<"$","2","b","$","p","a","s","s","w","o","r","d","1","2","3">>
    @@ "+1234567890" :> <<"+","1","2","3","4","5","6","7","8","9","0">>
    @@ "12345" :> <<"1","2","3","4","5">>
    @@ "Hello, World!" :> <<"H","e","l","l","o",","," ","W","o","r","l","d","!">>
    @@ "hello world" :> <<"h","e","l","l","o"," ","w","o","r","l","d">>
    @@ "hello-world" :> <<"h","e","l","l","o","-","w","o","r","l","d">>
    @@ "hello-world-1" :> <<"h","e","l","l","o","-","w","o","r","l","d","-","1">>
    @@ "hello-world-2" :> <<"h","e","l","l","o","-","w","o","r","l","d","-","2">>
    @@ "hello-world-3" :> <<"h","e","l","l","o","-","w","o","r","l","d","-","3">>
    @@ "hello-world-4" :> <<"h","e","l","l","o","-","w","o","r","l","d","-","4">>
    @@ "hello-world-1-1" :> <<"h","e","l","l","o","-","w","o","r","l","d","-","1","-","1">>
    @@ "hello-world-1-2" :> <<"h","e","l","l","o","-","w","o","r","l","d","-","1","-","2">>
    @@ "hello-world-1-3" :> <<"h","e","l","l","o","-","w","o","r","l","d","-","1","-","3">>
    @@ "hello-world-1-4" :> <<"h","e","l","l","o","-","w","o","r","l","d","-","1","-","4">>
    @@ "Intro" :> <<"I","n","t","r","o">>
    @@ "intro" :> <<"i","n","t","r","o">>
    @@ "Other" :> <<"O","t","h","e","r">>
    @@ "other" :> <<"o","t","h","e","r">>

Str(cs) == CHOOSE s \in DOMAIN Chars : Chars[s] = cs

UpperCase == <<"A","B","C","D","E","F","G","H","I","J","K","L","M","N","O","P","Q","R","S","T","U","V","W","X","Y","Z">>
LowerCase == <<"a","b","c","d","e","f","g","h","i","j","k","l","m","n","o","p","q","r","s","t","u","v","w","x","y","z">>

\* str.lower() on one character
ToLower == [c \in {UpperCase[i] : i \in DOMAIN UpperCase} |->
               LowerCase[CHOOSE i \in DOMAIN UpperCase : UpperCase[i] = c]]

LowerChar(c) == IF c \in DOMAIN ToLower THEN ToLower[c] ELSE c

\* str.lower(), tabulated once over the strings of the model whose lower-case
\* form is one of them (@@ makes the table an explicit one)
LowerOf ==
    LET lowered(cs) == [i \in 1..Len(cs) |-> LowerChar(cs[i])]
        known == {s \in DOMAIN Chars : \E t \in DOMAIN Chars : Chars[t] = lowered(Chars[s])}
    IN  [s \in known |-> Str(lowered(Chars[s]))] @@ <<>>

Lower(s) == LowerOf[s]

\* len(s)
StrLen(s) == Len(Chars[s])

\* re.match(r"[^@]+@[^@]+\.[^@]+", s): s starts with x@y.z, where x, y, z
\* are non-empty and free of "@" (y may hold dots).  x ends at the first "@".
EmailFormatOk(s) ==
    LET cs == Chars[s]
        ats == {i \in 1..Len(cs) : cs[i] = "@"}
    IN  /\ ats # {}
        /\ LET a == CHOOSE i \in ats : \A j \in ats : i <= j
           IN  /\ a >= 2
               /\ \E d \in (a + 2)..(Len(cs) - 1) :
                      /\ cs[d] = "."
                      /\ \A i \in (a + 1)..(d - 1) : cs[i] # "@"
                      /\ cs[d + 1] # "@"

\* re.match(r"^\+?[\d\s\-\(\)]{10,15}$", s)
PhoneFormatOk(s) ==
    LET cs == Chars[s]
        body == IF Len(cs) > 0 /\ cs[1] = "+" THEN Tail(cs) ELSE cs
        PhoneChars == {"0","1","2","3","4","5","6","7","8","9"," ","-","(",")"}
    IN  /\ Len(body) >= 10
        /\ Len(body) <= 15
        /\ \A i \in 1..Len(body) : body[i] \in PhoneChars

-----------------------------------------------------------------------------
(* app/utils.py *)

\* A variant: the password is stored as it came
get_hashed_password_Plain(password) == password

\* password_context.hash: a bcrypt string, never the plaintext itself
get_hashed_password(password) == Str(<<"$", "2", "b", "$">> \o Chars[password])

\* password_context.verify
verify_password(password, hashed_pass) ==
    Chars[hashed_pass] = <<"$", "2", "b", "$">> \o Chars[password]

\* The identity a request runs as.  "super" is the superUser dict, "user" a
\* Users document (named by its id), "none" is None / False.
NoIdentity == [kind |-> "none", id |-> 0]
superUser == [kind |-> "super", id |-> 0]
StoredUser(i) == [kind |-> "user", id |-> i]

\* Users.objects(email=e).first(): the oldest matching document, 0 if none
FirstByEmail(e) ==
    LET hit == {i \in DOMAIN users : users[i].email = e}
    IN  IF hit = {} THEN 0 ELSE CHOOSE i \in hit : \A j \in hit : i <= j

\* A variant: every token names the superuser
create_access_token_FixedSubject(subject, uid) ==
    [sub |-> SUPERUSER_EMAIL, exp |-> now + ACCESS_TOKEN_EXPIRE_MINUTES, uid |-> uid]

\* A token is its payload {sub, exp}; uid records whom login issued it to
\* (0: the superuser) and is not part of the payload.
create_access_token(subject, uid) ==
    [sub |-> subject, exp |-> now + ACCESS_TOKEN_EXPIRE_MINUTES, uid |-> uid]

\* A variant: the stored users are consulted before the superuser's credentials
authenticate_user_StoredFirst(email, password) ==
    LET i == FirstByEmail(Lower(email))
    IN  IF i # 0
        THEN IF ~users[i].is_active THEN NoIdentity
             ELSE IF verify_password(password, users[i].password) THEN StoredUser(i)
             ELSE NoIdentity
        ELSE IF email = SUPERUSER_EMAIL /\ password = SUPERUSER_PASSWORD
        THEN superUser
        ELSE NoIdentity

authenticate_user(email, password) ==
    IF email = SUPERUSER_EMAIL /\ password = SUPERUSER_PASSWORD
    THEN superUser
    ELSE LET i == FirstByEmail(Lower(email))
         IN  IF i = 0 THEN NoIdentity
             ELSE IF ~users[i].is_active THEN NoIdentity
             ELSE IF verify_password(password, users[i].password) THEN StoredUser(i)
             ELSE NoIdentity

\* A variant: a token of a deactivated user is refused
get_current_user_ActiveOnly(token) ==
    IF ~token.sig \/ token.exp < now THEN NoIdentity
    ELSE IF token.sub = SUPERUSER_EMAIL THEN superUser
    ELSE LET i == FirstByEmail(token.sub)
         IN  IF i = 0 \/ ~users[i].is_active THEN NoIdentity ELSE StoredUser(i)

\* A variant: the expiry of the token is not looked at
get_current_user_NoExpiry(token) ==
    IF ~token.sig THEN NoIdentity
    ELSE IF token.sub = SUPERUSER_EMAIL THEN superUser
    ELSE LET i == FirstByEmail(token.sub)
         IN  IF i = 0 THEN NoIdentity ELSE StoredUser(i)

\* jwt.decode raises JWTError on a bad signature and on exp < now
\* A variant: the stored user of that email is looked for first.
get_current_user_StoredFirst(token) ==
    IF ~token.sig \/ token.exp < now THEN NoIdentity
    ELSE LET i == FirstByEmail(token.sub)
         IN  IF i # 0 THEN StoredUser(i)
             ELSE IF token.sub = SUPERUSER_EMAIL THEN superUser
             ELSE NoIdentity

\* A variant: the token is resolved to the user it was issued to.
get_current_user_ByRecord(token) ==
    IF ~token.sig \/ token.exp < now THEN NoIdentity
    ELSE IF token.sub = SUPERUSER_EMAIL THEN superUser
    ELSE IF token.uid \in DOMAIN users THEN StoredUser(token.uid)
    ELSE NoIdentity

get_current_user(token) ==
    IF ~token.sig \/ token.exp < now THEN NoIdentity
    ELSE IF token.sub = SUPERUSER_EMAIL THEN superUser
    ELSE LET i == FirstByEmail(token.sub)
         IN  IF i = 0 THEN NoIdentity ELSE StoredUser(i)

-----------------------------------------------------------------------------
(* Requests and responses *)

\* What a client can put in the Authorization header: nothing, a token it
\* holds, or a payload signed with another key.
Signed(t) == [sub |-> t.sub, exp |-> t.exp, uid |-> t.uid, sig |-> TRUE]
Forged == [sub |-> SUPERUSER_EMAIL, exp |-> MaxTime + ACCESS_TOKEN_EXPIRE_MINUTES,
           uid |-> 0, sig |-> FALSE]
Bearer == {<<>>} \cup {<<Signed(t)>> : t \in tokens} \cup {<<Forged>>}

Response(status, body, token, challenge) ==
    [status |-> status, body |-> body, token |-> token, challenge |-> challenge]

\* UserResponseSchema(...) as the handlers fill it from a Users document
UserResponse(i, u) ==
    [id |-> i, first_name |-> u.first_name, last_name |-> u.last_name,
     email |-> u.email, phone |-> u.phone, role |-> u.role,
     is_active |-> u.is_active, created_at |-> u.created_at,
     updated_at |-> u.updated_at]

\* UserResponseSchema(...) as login and /me fill it for the superuser
SuperUserResponse ==
    [id |-> SUPERUSER_ID, first_name |-> "Super", last_name |-> "User",
     email |-> SUPERUSER_EMAIL, phone |-> "", role |-> ADMIN,
     is_active |-> TRUE, created_at |-> now, updated_at |-> now]

\* Users.save(): updated_at is refreshed, then the document is written
Save(store, i, u) ==
    LET doc == [u EXCEPT !.updated_at = now]
    IN  [j \in DOMAIN store \cup {i} |-> IF j = i THEN doc ELSE store[j]]

\* document.delete()
Delete(store, i) == [j \in DOMAIN store \ {i} |-> store[j]]

\* What a handler leaves behind: the status, the store and the body.
Outcome(status, store, body) == [status |-> status, users |-> store, body |-> body]
Raise(status) == Outcome(status, users, <<>>)

-----------------------------------------------------------------------------
(* app/services/auth.py: the handlers, as what they leave behind *)

\* Depends(oauth2_scheme) answers 401 when the header is missing; otherwise
\* get_current_user_dependency resolves the token.
get_current_user_dependency(bearer) ==
    IF bearer = <<>> THEN NoIdentity ELSE get_current_user(bearer[1])

\* A variant: every stored user passes
validate_admin_permissions_AnyUser(current_user) ==
    IF current_user.kind = "super" THEN TRUE
    ELSE IF current_user.kind = "user" /\ current_user.id \in DOMAIN users THEN TRUE
    ELSE FALSE

\* A variant: a stored admin who is not active has no admin permissions.
validate_admin_permissions_ActiveOnly(current_user) ==
    IF current_user.kind = "super" THEN TRUE
    ELSE IF current_user.kind = "user" /\ current_user.id \in DOMAIN users
              /\ users[current_user.id].role = ADMIN
              /\ users[current_user.id].is_active THEN TRUE
    ELSE FALSE

validate_admin_permissions(current_user) ==
    IF current_user.kind = "super" THEN TRUE
    ELSE IF current_user.kind = "user" /\ current_user.id \in DOMAIN users
              /\ users[current_user.id].role = ADMIN THEN TRUE
    ELSE FALSE

\* A variant: is_active is left to the Users model's default, True
signup_DefaultActive(user_data) ==
    IF ~EmailFormatOk(user_data.email) THEN Raise(400)
    ELSE IF ~PhoneFormatOk(user_data.phone) THEN Raise(400)
    ELSE IF FirstByEmail(Lower(user_data.email)) # 0 THEN Raise(400)
    ELSE LET new_user == [first_name |-> user_data.first_name,
                          last_name |-> user_data.last_name,
                          email |-> Lower(user_data.email),
                          password |-> get_hashed_password(user_data.password),
                          phone |-> user_data.phone,
                          role |-> user_data.role,
                          is_active |-> TRUE,
                          created_at |-> now,
                          updated_at |-> now]
             store == Save(users, nextId, new_user)
         IN  Outcome(201, store, <<UserResponse(nextId, store[nextId])>>)

\* A variant: the existence check compares the email as typed
signup_CaseSensitive(user_data) ==
    IF ~EmailFormatOk(user_data.email) THEN Raise(400)
    ELSE IF ~PhoneFormatOk(user_data.phone) THEN Raise(400)
    ELSE IF FirstByEmail(user_data.email) # 0 THEN Raise(400)
    ELSE LET new_user == [first_name |-> user_data.first_name,
                          last_name |-> user_data.last_name,
                          email |-> Lower(user_data.email),
                          password |-> get_hashed_password(user_data.password),
                          phone |-> user_data.phone,
                          role |-> user_data.role,
                          is_active |-> FALSE,
                          created_at |-> now,
                          updated_at |-> now]
             store == Save(users, nextId, new_user)
         IN  Outcome(201, store, <<UserResponse(nextId, store[nextId])>>)

\* A variant: the users collection has no unique index on email.
UserSaved_NoIndex(status, i, u) ==
    LET store == Save(users, i, u)
    IN  Outcome(status, store, <<UserResponse(i, store[i])>>)

\* The answer after new_user.save(): 500 when the unique index on email
\* refuses the document (another user holds the email)
UserSaved(status, i, u) ==
    IF \E k \in DOMAIN users : k # i /\ users[k].email = u.email THEN Raise(500)
    ELSE LET store == Save(users, i, u)
         IN  Outcome(status, store, <<UserResponse(i, store[i])>>)

signup(user_data) ==
    IF ~EmailFormatOk(user_data.email) THEN Raise(400)
    ELSE IF ~PhoneFormatOk(user_data.phone) THEN Raise(400)
    ELSE IF FirstByEmail(Lower(user_data.email)) # 0 THEN Raise(400)
    ELSE LET new_user == [first_name |-> user_data.first_name,
                          last_name |-> user_data.last_name,
                          email |-> Lower(user_data.email),
                          password |-> get_hashed_password(user_data.password),
                          phone |-> user_data.phone,
                          role |-> user_data.role,
                          is_active |-> FALSE,
                          created_at |-> now,
                          updated_at |-> now]
         IN  UserSaved(201, nextId, new_user)

\* A variant: the role and status check after authentication is missing
login_NoRoleCheck(username, password) ==
    LET user == authenticate_user(username, password)
    IN  IF user.kind = "none"
        THEN [status |-> 401, user |-> user, token |-> <<>>, body |-> <<>>]
        ELSE IF user.kind = "super"
        THEN [status |-> 200, user |-> user,
              token |-> <<create_access_token(SUPERUSER_EMAIL, 0)>>,
              body |-> <<SuperUserResponse>>]
        ELSE [status |-> 200, user |-> user,
              token |-> <<create_access_token(users[user.id].email, user.id)>>,
              body |-> <<UserResponse(user.id, users[user.id])>>]

\* login: the status, the identity it accepted and the token it returns
login(username, password) ==
    LET user == authenticate_user(username, password)
    IN  IF user.kind = "none"
        THEN [status |-> 401, user |-> user, token |-> <<>>, body |-> <<>>]
        ELSE IF user.kind = "user"
                /\ (users[user.id].role # ADMIN \/ ~users[user.id].is_active)
        THEN [status |-> 403, user |-> user, token |-> <<>>, body |-> <<>>]
        ELSE IF user.kind = "super"
        THEN [status |-> 200, user |-> user,
              token |-> <<create_access_token(SUPERUSER_EMAIL, 0)>>,
              body |-> <<SuperUserResponse>>]
        ELSE [status |-> 200, user |-> user,
              token |-> <<create_access_token(users[user.id].email, user.id)>>,
              body |-> <<UserResponse(user.id, users[user.id])>>]

get_current_user_info(current_user) ==
    IF current_user.kind = "super"
    THEN Outcome(200, users, <<SuperUserResponse>>)
    ELSE Outcome(200, users, <<UserResponse(current_user.id, users[current_user.id])>>)

get_user_by_id(current_user, user_id) ==
    IF ~validate_admin_permissions(current_user) THEN Raise(403)
    ELSE IF user_id \notin DOMAIN users THEN Raise(404)
    ELSE Outcome(200, users, <<UserResponse(user_id, users[user_id])>>)

\* user_data holds the fields the request sets; a field's value is <<v>>,
\* or <<>> when the request sets it to null.
update_user(current_user, user_id, user_data) ==
    LET given(f) == f \in DOMAIN user_data /\ user_data[f] # <<>>
        null(f) == f \in DOMAIN user_data /\ user_data[f] = <<>>
        set(u, f) == IF given(f) THEN user_data[f][1] ELSE u[f]
    IN  IF ~validate_admin_permissions(current_user) THEN Raise(403)
        ELSE IF user_id \notin DOMAIN users THEN Raise(404)
        ELSE IF given("email") /\ ~EmailFormatOk(user_data.email[1]) THEN Raise(400)
        ELSE IF given("phone") /\ ~PhoneFormatOk(user_data.phone[1]) THEN Raise(400)
        ELSE IF /\ given("email")
                /\ Lower(user_data.email[1]) # users[user_id].email
                /\ FirstByEmail(Lower(user_data.email[1])) # 0 THEN Raise(400)
        \* None.lower() raises; save() rejects a required field set to None
        ELSE IF null("email") \/ null("first_name") \/ null("last_name") \/ null("phone")
        THEN Raise(500)
        ELSE LET u == users[user_id]
                 user == [u EXCEPT !.first_name = set(u, "first_name"),
                                   !.last_name = set(u, "last_name"),
                                   !.email = IF given("email")
                                             THEN Lower(user_data.email[1])
                                             ELSE u.email,
                                   !.phone = set(u, "phone"),
                                   \* a field set to None takes its default
                                   !.role = IF null("role") THEN USER ELSE set(u, "role"),
                                   !.is_active = IF null("is_active") THEN TRUE
                                                 ELSE set(u, "is_active")]
                 store == Save(users, user_id, user)
             IN  Outcome(200, store, <<UserResponse(user_id, store[user_id])>>)

update_user_password(current_user, user_id, new_password) ==
    IF ~validate_admin_permissions(current_user) THEN Raise(403)
    ELSE IF user_id \notin DOMAIN users THEN Raise(404)
    ELSE IF StrLen(new_password) < 6 THEN Raise(400)
    ELSE LET store == Save(users, user_id,
                 [users[user_id] EXCEPT !.password = get_hashed_password(new_password)])
         IN  Outcome(200, store, <<UserResponse(user_id, store[user_id])>>)

update_user_status(current_user, user_id, is_active) ==
    IF ~validate_admin_permissions(current_user) THEN Raise(403)
    ELSE IF user_id \notin DOMAIN users THEN Raise(404)
    ELSE LET store == Save(users, user_id, [users[user_id] EXCEPT !.is_active = is_active])
         IN  Outcome(200, store, <<UserResponse(user_id, store[user_id])>>)

update_user_role(current_user, user_id, role) ==
    IF ~validate_admin_permissions(current_user) THEN Raise(403)
    ELSE IF user_id \notin DOMAIN users THEN Raise(404)
    ELSE LET store == Save(users, user_id, [users[user_id] EXCEPT !.role = role])
         IN  Outcome(200, store, <<UserResponse(user_id, store[user_id])>>)

delete_user(current_user, user_id) ==
    IF ~validate_admin_permissions(current_user) THEN Raise(403)
    ELSE IF user_id \notin DOMAIN users THEN Raise(404)
    ELSE IF current_user.kind # "super" /\ user_id = current_user.id THEN Raise(400)
    ELSE Outcome(204, Delete(users, user_id), <<>>)

\* The orders in which the store can return the documents ids for
\* order_by('-created_at'): newest first, equal timestamps in any order.
NewestFirst(ids) ==
    {o \in [1..Cardinality(ids) -> ids] :
        /\ \A i, j \in DOMAIN o : i # j => o[i] # o[j]
        /\ \A i, j \in DOMAIN o : i < j => users[o[i]].created_at >= users[o[j]].created_at}

\* q: page, limit, role and is_active (<<>> when absent), search (given or not);
\* order: the store's order of the matching documents.
UsersMatching(q) ==
    {i \in DOMAIN users :
        /\ (q.role # <<>> /\ q.role[1] \in UserRoles) => users[i].role = q.role[1]
        /\ q.is_active # <<>> => users[i].is_active = q.is_active[1]}

get_all_users(current_user, q, order) ==
    IF ~validate_admin_permissions(current_user) THEN Raise(403)
    \* the '$or' keyword is no field of Users: the query raises
    ELSE IF q.search THEN Raise(500)
    ELSE LET skip == (q.page - 1) * q.limit
             last == IF skip + q.limit < Len(order) THEN skip + q.limit ELSE Len(order)
             page == SubSeq(order, skip + 1, last)
         IN  Outcome(200, users,
                     <<[users |-> [k \in DOMAIN page |-> UserResponse(page[k], users[page[k]])],
                        total |-> Len(order), page |-> q.page, limit |-> q.limit]>>)

-----------------------------------------------------------------------------
(* app/services/blog.py and app/models/blog.py.  A blog is modelled by its
   title, slug, sections, tags, status and timestamps; excerpt, author and
   images are copied from the request to the document and the response and
   are left out. *)

\* What a handler of the content services leaves behind: the status, its
\* collection and the body.
Result(status, store, body) == [status |-> status, store |-> store, body |-> body]

\* \s, and the characters re.sub(r'[^\w\s-]', '', ...) keeps: \w, \s and "-"
Whitespace == {" ", "\t"}
SlugKeep ==
    LET Letters == {UpperCase[i] : i \in DOMAIN UpperCase}
                       \cup {LowerCase[i] : i \in DOMAIN LowerCase}
        Digits == {"0","1","2","3","4","5","6","7","8","9"}
    IN  Letters \cup Digits \cup {"_"} \cup Whitespace \cup {"-"}

\* re.sub(r'[-\s]+', '-', cs): every run of hyphens and whitespace becomes
\* one hyphen
RECURSIVE CollapseRuns(_)
CollapseRuns(cs) ==
    IF cs = <<>> THEN <<>>
    ELSE IF Head(cs) \in Whitespace \cup {"-"}
    THEN IF Len(cs) > 1 /\ cs[2] \in Whitespace \cup {"-"}
         THEN CollapseRuns(Tail(cs))
         ELSE <<"-">> \o CollapseRuns(Tail(cs))
    ELSE <<Head(cs)>> \o CollapseRuns(Tail(cs))

\* str.strip('-')
RECURSIVE StripHyphens(_)
StripHyphens(cs) ==
    IF cs = <<>> THEN <<>>
    ELSE IF Head(cs) = "-" THEN StripHyphens(Tail(cs))
    ELSE IF cs[Len(cs)] = "-" THEN StripHyphens(SubSeq(cs, 1, Len(cs) - 1))
    ELSE cs

\* A variant: the runs are collapsed before the other characters are removed.
SlugChars_CollapseFirst(cs) ==
    LET lowered == [i \in 1..Len(cs) |-> LowerChar(cs[i])]
    IN  StripHyphens(SelectSeq(CollapseRuns(lowered), LAMBDA c : c \in SlugKeep))

SlugChars(cs) ==
    LET lowered == [i \in 1..Len(cs) |-> LowerChar(cs[i])]
        kept == SelectSeq(lowered, LAMBDA c : c \in SlugKeep)
    IN  StripHyphens(CollapseRuns(kept))

\* generate_slug, tabulated once over the strings of the model whose slug is
\* one of them
SlugOf ==
    [s \in {x \in DOMAIN Chars : \E y \in DOMAIN Chars : Chars[y] = SlugChars(Chars[x])} |->
        Str(SlugChars(Chars[s]))] @@ <<>>

generate_slug(title) == SlugOf[title]

\* str(counter)
RECURSIVE Decimal(_)
Decimal(n) ==
    LET digit == <<"0","1","2","3","4","5","6","7","8","9">>
    IN  IF n < 10 THEN <<digit[n + 1]>> ELSE Decimal(n \div 10) \o <<digit[(n % 10) + 1]>>

\* A variant: every counter is tried twice before the next one.
Suffixed_Twice(original_slug, counter) ==
    Str(Chars[original_slug] \o <<"-">> \o Decimal((counter + 1) \div 2))

\* f"{original_slug}-{counter}"
Suffixed(original_slug, counter) ==
    Str(Chars[original_slug] \o <<"-">> \o Decimal(counter))

\* A variant: the slug query never finds a document.
SlugTaken_Never(slug, exclude_id) == FALSE

\* A variant: the slug is returned as it was given.
ensure_unique_slug_AsGiven(slug, exclude_id) == slug

\* exclude_id is 0 when the caller gives none
SlugTaken(slug, exclude_id) ==
    \E b \in DOMAIN blogs : b # exclude_id /\ blogs[b].slug = slug

RECURSIVE SlugLoop(_, _, _, _)
SlugLoop(original_slug, slug, counter, exclude_id) ==
    IF ~SlugTaken(slug, exclude_id) THEN slug
    ELSE SlugLoop(original_slug, Suffixed(original_slug, counter), counter + 1, exclude_id)

ensure_unique_slug(slug, exclude_id) == SlugLoop(slug, slug, 1, exclude_id)

\* The queries `query.first()` that the same loop makes before it returns.
RECURSIVE SlugLookups(_, _, _, _)
SlugLookups(original_slug, slug, counter, exclude_id) ==
    IF ~SlugTaken(slug, exclude_id) THEN 1
    ELSE 1 + SlugLookups(original_slug, Suffixed(original_slug, counter), counter + 1,
                         exclude_id)

\* the admin check the blog handlers spell out
blog_admin(current_user) ==
    \/ current_user.kind = "super"
    \/ /\ current_user.kind = "user"
       /\ current_user.id \in DOMAIN users
       /\ users[current_user.id].role = ADMIN

\* Blog.is_published: choices
BlogStatuses == {"draft", "published", "archived"}

\* Document.validate, run by save(): content is required and may not be
\* empty, is_published is one of the choices
BlogValid(blog) ==
    /\ blog.content # <<>>
    /\ blog.is_published \in BlogStatuses

\* A variant: the document is written with the updated_at it carries.
BlogSave_KeepStamp(i, blog) ==
    [j \in DOMAIN blogs \cup {i} |-> IF j = i THEN blog ELSE blogs[j]]

\* Blog.save(): updated_at is refreshed, then the document is written
BlogSave(i, blog) ==
    LET doc == [blog EXCEPT !.updated_at = now]
    IN  [j \in DOMAIN blogs \cup {i} |-> IF j = i THEN doc ELSE blogs[j]]

convert_blog_to_response(i, blog) ==
    [id |-> i, title |-> blog.title, slug |-> blog.slug, content |-> blog.content,
     tags |-> blog.tags, is_published |-> blog.is_published,
     published_at |-> blog.published_at, created_at |-> blog.created_at,
     updated_at |-> blog.updated_at]

\* The answer after blog.save(): 500 when validation refuses the document, or
\* when the unique index on slug refuses it (another document holds the slug)
Saved(status, i, blog) ==
    IF ~BlogValid(blog) \/ SlugTaken(blog.slug, i) THEN Result(500, blogs, <<>>)
    ELSE LET store == BlogSave(i, blog)
         IN  Result(status, store, <<convert_blog_to_response(i, store[i])>>)

\* blog_data: title, slug (<<>> when absent), content, tags, is_published
create_blog(current_user, blog_data) ==
    IF ~blog_admin(current_user) THEN Result(403, blogs, <<>>)
    ELSE LET slug == ensure_unique_slug(IF blog_data.slug # <<>>
                                        THEN blog_data.slug[1]
                                        ELSE generate_slug(blog_data.title), 0)
             new_blog == [title |-> blog_data.title,
                          slug |-> slug,
                          content |-> blog_data.content,
                          tags |-> blog_data.tags,
                          is_published |-> blog_data.is_published,
                          published_at |-> now,
                          created_at |-> now,
                          updated_at |-> now]
         IN  Saved(201, nextDocId, new_blog)

\* order_by('-published_at', '-created_at'): the orders the store can return
BlogsNewestFirst(ids) ==
    {o \in [1..Cardinality(ids) -> ids] :
        /\ \A i, j \in DOMAIN o : i # j => o[i] # o[j]
        /\ \A i, j \in DOMAIN o : i < j =>
              \/ blogs[o[i]].published_at > blogs[o[j]].published_at
              \/ /\ blogs[o[i]].published_at = blogs[o[j]].published_at
                 /\ blogs[o[i]].created_at >= blogs[o[j]].created_at}

\* q: page, limit, is_published (<<>> when absent), search (given or not)
BlogsMatching(q) ==
    {i \in DOMAIN blogs : q.is_published # <<>> => blogs[i].is_published = q.is_published[1]}

get_all_blogs_admin(current_user, q, order) ==
    IF ~blog_admin(current_user) THEN Result(403, blogs, <<>>)
    \* the '$or' keyword is no field of Blog: the query raises
    ELSE IF q.search THEN Result(500, blogs, <<>>)
    ELSE LET skip == (q.page - 1) * q.limit
             last == IF skip + q.limit < Len(order) THEN skip + q.limit ELSE Len(order)
             page == SubSeq(order, skip + 1, last)
         IN  Result(200, blogs,
                    <<[blogs |-> [k \in DOMAIN page |-> convert_blog_to_response(page[k], blogs[page[k]])],
                       total |-> Len(order), page |-> q.page, limit |-> q.limit]>>)

\* GET /: the published blogs only, no token asked for. q: page, limit
get_blogs(q, order) ==
    LET skip == (q.page - 1) * q.limit
        last == IF skip + q.limit < Len(order) THEN skip + q.limit ELSE Len(order)
        page == SubSeq(order, skip + 1, last)
    IN  Result(200, blogs,
               <<[blogs |-> [k \in DOMAIN page |-> convert_blog_to_response(page[k], blogs[page[k]])],
                  total |-> Len(order), page |-> q.page, limit |-> q.limit]>>)

\* Blog.objects(slug=slug).first(): the place of a blog of that slug, 0 if none
FirstBySlug(slug) ==
    IF \E i \in DOMAIN blogs : blogs[i].slug = slug
    THEN CHOOSE i \in DOMAIN blogs : blogs[i].slug = slug
    ELSE 0

\* A variant: the blog of that slug is returned whatever its status.
get_blog_by_slug_AnyStatus(slug) ==
    LET i == FirstBySlug(slug)
    IN  IF i = 0 THEN Result(404, blogs, <<>>)
        ELSE Result(200, blogs, <<convert_blog_to_response(i, blogs[i])>>)

\* GET /slug/{slug}: no token asked for
get_blog_by_slug(slug) ==
    LET i == FirstBySlug(slug)
    IN  IF i = 0 THEN Result(404, blogs, <<>>)
        ELSE IF blogs[i].is_published # "published" THEN Result(404, blogs, <<>>)
        ELSE Result(200, blogs, <<convert_blog_to_response(i, blogs[i])>>)

get_blog(current_user, blog_id) ==
    IF blog_id \notin DOMAIN blogs THEN Result(404, blogs, <<>>)
    ELSE IF ~blog_admin(current_user) /\ blogs[blog_id].is_published # "published"
    THEN Result(404, blogs, <<>>)
    ELSE Result(200, blogs, <<convert_blog_to_response(blog_id, blogs[blog_id])>>)

\* blog_data holds the fields the request sets; a field's value is <<v>>, or
\* <<>> when the request sets it to null.
update_blog(current_user, blog_id, blog_data) ==
    LET given(f) == f \in DOMAIN blog_data /\ blog_data[f] # <<>>
        null(f) == f \in DOMAIN blog_data /\ blog_data[f] = <<>>
        set(b, f) == IF given(f) THEN blog_data[f][1] ELSE b[f]
    IN  IF ~blog_admin(current_user) THEN Result(403, blogs, <<>>)
        ELSE IF blog_id \notin DOMAIN blogs THEN Result(404, blogs, <<>>)
        \* generate_slug(None), a loop over None, and a required field set to
        \* None all raise
        ELSE IF null("title") \/ null("content")
                \/ (null("slug") /\ "title" \notin DOMAIN blog_data)
        THEN Result(500, blogs, <<>>)
        ELSE LET b == blogs[blog_id]
                 slug == IF "title" \in DOMAIN blog_data /\ ~given("slug")
                         THEN ensure_unique_slug(generate_slug(blog_data.title[1]), blog_id)
                         ELSE IF given("slug")
                         THEN ensure_unique_slug(blog_data.slug[1], blog_id)
                         ELSE b.slug
                 blog == [b EXCEPT !.title = set(b, "title"),
                                   !.slug = slug,
                                   !.content = set(b, "content"),
                                   !.tags = IF null("tags") THEN <<>> ELSE set(b, "tags"),
                                   \* a field set to None takes its default
                                   !.is_published = IF null("is_published") THEN "draft"
                                                    ELSE set(b, "is_published")]
             IN  Saved(200, blog_id, blog)

update_blog_status(current_user, blog_id, is_published) ==
    IF ~blog_admin(current_user) THEN Result(403, blogs, <<>>)
    ELSE IF blog_id \notin DOMAIN blogs THEN Result(404, blogs, <<>>)
    ELSE Saved(200, blog_id, [blogs[blog_id] EXCEPT !.is_published = is_published])

update_blog_tags(current_user, blog_id, tags) ==
    IF ~blog_admin(current_user) THEN Result(403, blogs, <<>>)
    ELSE IF blog_id \notin DOMAIN blogs THEN Result(404, blogs, <<>>)
    ELSE Saved(200, blog_id, [blogs[blog_id] EXCEPT !.tags = tags])

delete_blog(current_user, blog_id) ==
    IF ~blog_admin(current_user) THEN Result(403, blogs, <<>>)
    ELSE IF blog_id \notin DOMAIN blogs THEN Result(404, blogs, <<>>)
    ELSE Result(204, [j \in DOMAIN blogs \ {blog_id} |-> blogs[j]], <<>>)

\* A variant: the last section of that heading is the one found.
get_content_section_Last(content, heading) ==
    LET hit == {k \in DOMAIN content : Lower(content[k].heading) = Lower(heading)}
    IN  IF hit = {} THEN 0 ELSE CHOOSE k \in hit : \A l \in hit : k >= l

\* Blog.get_content_section: the place of the first section whose heading
\* equals the given one case-insensitively, 0 if none
get_content_section(content, heading) ==
    LET hit == {k \in DOMAIN content : Lower(content[k].heading) = Lower(heading)}
    IN  IF hit = {} THEN 0 ELSE CHOOSE k \in hit : \A l \in hit : k <= l

add_content_section(current_user, blog_id, section_data) ==
    IF ~blog_admin(current_user) THEN Result(403, blogs, <<>>)
    ELSE IF blog_id \notin DOMAIN blogs THEN Result(404, blogs, <<>>)
    ELSE Saved(200, blog_id,
               [blogs[blog_id] EXCEPT !.content = Append(@, section_data)])

\* A variant: the blog is saved before the missing section is reported.
update_content_section_SaveFirst(current_user, blog_id, section_data) ==
    IF ~blog_admin(current_user) THEN Result(403, blogs, <<>>)
    ELSE IF blog_id \notin DOMAIN blogs THEN Result(404, blogs, <<>>)
    ELSE LET content == blogs[blog_id].content
             k == get_content_section(content, section_data.heading)
         IN  IF k = 0 THEN Result(404, BlogSave(blog_id, blogs[blog_id]), <<>>)
             ELSE LET described ==
                          IF section_data.description # <<>>
                          THEN [content EXCEPT ![k].description = section_data.description[1]]
                          ELSE content
                      headed ==
                          IF section_data.new_heading # <<>>
                          THEN [described EXCEPT ![k].heading = section_data.new_heading[1]]
                          ELSE described
                  IN  Saved(200, blog_id, [blogs[blog_id] EXCEPT !.content = headed])

\* section_data: heading, new_heading and description (<<>> when absent)
update_content_section(current_user, blog_id, section_data) ==
    IF ~blog_admin(current_user) THEN Result(403, blogs, <<>>)
    ELSE IF blog_id \notin DOMAIN blogs THEN Result(404, blogs, <<>>)
    ELSE LET content == blogs[blog_id].content
             k == get_content_section(content, section_data.heading)
         IN  IF k = 0 THEN Result(404, blogs, <<>>)
             ELSE LET described ==
                          IF section_data.description # <<>>
                          THEN [content EXCEPT ![k].description = section_data.description[1]]
                          ELSE content
                      headed ==
                          IF section_data.new_heading # <<>>
                          THEN [described EXCEPT ![k].heading = section_data.new_heading[1]]
                          ELSE described
                  IN  Saved(200, blog_id, [blogs[blog_id] EXCEPT !.content = headed])

\* Blog.remove_content_section deletes the first match
delete_content_section(current_user, blog_id, heading) ==
    IF ~blog_admin(current_user) THEN Result(403, blogs, <<>>)
    ELSE IF blog_id \notin DOMAIN blogs THEN Result(404, blogs, <<>>)
    ELSE LET content == blogs[blog_id].content
             k == get_content_section(content, heading)
         IN  IF k = 0 THEN Result(404, blogs, <<>>)
             ELSE Saved(200, blog_id,
                        [blogs[blog_id] EXCEPT
                            !.content = SubSeq(content, 1, k - 1)
                                        \o SubSeq(content, k + 1, Len(content))])

-----------------------------------------------------------------------------
(* app/services/openings.py and app/models/openings.py.  A job opening is
   modelled by its job_id, type, status and timestamps, an application by
   its job, email, status and timestamps; the other fields are copied from
   the request to the document and the response and are left out. *)

VALID_JOB_TYPES == {"Full Time", "Part Time", "Contract", "Internship", "Freelance"}
VALID_STATUSES == {"Active", "Inactive", "Closed", "Draft"}
ApplicationStatuses == {"Pending", "Under Review", "Shortlisted", "Rejected", "Hired"}

openings_validate_user_permissions(current_user) ==
    IF current_user.kind = "super" THEN TRUE
    ELSE IF current_user.kind = "user" /\ current_user.id \in DOMAIN users
              /\ users[current_user.id].role = ADMIN THEN TRUE
    ELSE FALSE

\* JobOpening.objects(job_id=job_id).first(): the oldest match, 0 if none
FirstByJobId(job_id) ==
    LET hit == {i \in DOMAIN job_openings : job_openings[i].job_id = job_id}
    IN  IF hit = {} THEN 0 ELSE CHOOSE i \in hit : \A j \in hit : i <= j

\* JobOpening.save(): updated_at is refreshed, then the document is written
JobSave(i, job) ==
    LET doc == [job EXCEPT !.updated_at = now]
    IN  [j \in DOMAIN job_openings \cup {i} |-> IF j = i THEN doc ELSE job_openings[j]]

JobOpeningResponse(i, job) ==
    [id |-> i, job_id |-> job.job_id, type |-> job.type, is_active |-> job.is_active,
     created_at |-> job.created_at, updated_at |-> job.updated_at]

\* The answer after job.save(): 500 when the choices of type or is_active
\* refuse the document, or the unique index on job_id does (another opening
\* holds the job_id)
JobSaved(status, i, job) ==
    IF \/ job.type \notin VALID_JOB_TYPES
       \/ job.is_active \notin VALID_STATUSES
       \/ \E k \in DOMAIN job_openings : k # i /\ job_openings[k].job_id = job.job_id
    THEN Result(500, job_openings, <<>>)
    ELSE LET store == JobSave(i, job)
         IN  Result(status, store, <<JobOpeningResponse(i, store[i])>>)

create_job_opening(current_user, job_data) ==
    IF ~openings_validate_user_permissions(current_user) THEN Result(403, job_openings, <<>>)
    ELSE IF job_data.type \notin VALID_JOB_TYPES THEN Result(400, job_openings, <<>>)
    ELSE IF job_data.is_active \notin VALID_STATUSES THEN Result(400, job_openings, <<>>)
    ELSE IF FirstByJobId(job_data.job_id) # 0 THEN Result(400, job_openings, <<>>)
    ELSE JobSaved(201, nextDocId,
                  [job_id |-> job_data.job_id, type |-> job_data.type,
                   is_active |-> job_data.is_active,
                   created_at |-> now, updated_at |-> now])

\* job_data holds the fields the request sets; a field's value is <<v>>, or
\* <<>> when the request sets it to null.
update_job_opening(current_user, job_id, job_data) ==
    LET given(f) == f \in DOMAIN job_data /\ job_data[f] # <<>>
        null(f) == f \in DOMAIN job_data /\ job_data[f] = <<>>
        truthy(f) == given(f) /\ job_data[f][1] # ""
        set(j, f) == IF given(f) THEN job_data[f][1] ELSE j[f]
        i == FirstByJobId(job_id)
    IN  IF ~openings_validate_user_permissions(current_user) THEN Result(403, job_openings, <<>>)
        ELSE IF i = 0 THEN Result(404, job_openings, <<>>)
        \* `if job_data.type and ...`: the checks are skipped for a field that
        \* is absent, null or the empty string
        ELSE IF truthy("type") /\ job_data.type[1] \notin VALID_JOB_TYPES
        THEN Result(400, job_openings, <<>>)
        ELSE IF truthy("is_active") /\ job_data.is_active[1] \notin VALID_STATUSES
        THEN Result(400, job_openings, <<>>)
        ELSE IF /\ truthy("job_id")
                /\ job_data.job_id[1] # job_openings[i].job_id
                /\ FirstByJobId(job_data.job_id[1]) # 0
        THEN Result(400, job_openings, <<>>)
        \* save() rejects a required field set to None
        ELSE IF null("job_id") \/ null("type") THEN Result(500, job_openings, <<>>)
        ELSE LET j == job_openings[i]
                 job == [j EXCEPT !.job_id = set(j, "job_id"),
                                  !.type = set(j, "type"),
                                  \* a field set to None takes its default
                                  !.is_active = IF null("is_active") THEN "Active"
                                                ELSE set(j, "is_active")]
             IN  JobSaved(200, i, job)

\* the public route: no identity is asked for
get_job_opening(job_id) ==
    LET i == FirstByJobId(job_id)
    IN  IF i = 0 THEN Result(404, job_openings, <<>>)
        ELSE Result(200, job_openings, <<JobOpeningResponse(i, job_openings[i])>>)

\* A variant: the opening is closed and kept.
delete_job_opening_CloseOnly(current_user, job_id) ==
    LET i == FirstByJobId(job_id)
    IN  IF ~openings_validate_user_permissions(current_user) THEN Result(403, job_openings, <<>>)
        ELSE IF i = 0 THEN Result(404, job_openings, <<>>)
        ELSE Result(204, JobSave(i, [job_openings[i] EXCEPT !.is_active = "Closed"]), <<>>)

delete_job_opening(current_user, job_id) ==
    LET i == FirstByJobId(job_id)
    IN  IF ~openings_validate_user_permissions(current_user) THEN Result(403, job_openings, <<>>)
        ELSE IF i = 0 THEN Result(404, job_openings, <<>>)
        ELSE Result(204, [j \in DOMAIN job_openings \ {i} |-> job_openings[j]], <<>>)

update_job_status(current_user, job_id, new_status) ==
    LET i == FirstByJobId(job_id)
    IN  IF ~openings_validate_user_permissions(current_user) THEN Result(403, job_openings, <<>>)
        ELSE IF new_status \notin VALID_STATUSES THEN Result(400, job_openings, <<>>)
        ELSE IF i = 0 THEN Result(404, job_openings, <<>>)
        ELSE LET store == JobSave(i, [job_openings[i] EXCEPT !.is_active = new_status])
             IN  Result(200, store, <<JobOpeningResponse(i, store[i])>>)

get_job_opening_stats(current_user) ==
    IF ~openings_validate_user_permissions(current_user) THEN Result(403, job_openings, <<>>)
    ELSE LET count(S) == Cardinality({i \in DOMAIN job_openings : job_openings[i].is_active = S})
         IN  Result(200, job_openings,
                    <<[total_jobs |-> Cardinality(DOMAIN job_openings),
                       active_jobs |-> count("Active"),
                       inactive_jobs |-> count("Inactive"),
                       closed_jobs |-> count("Closed"),
                       draft_jobs |-> count("Draft")]>>)

\* JobApplication.save(): updated_at is refreshed, then the document is written
ApplicationSave(i, application) ==
    LET doc == [application EXCEPT !.updated_at = now]
    IN  [j \in DOMAIN job_applications \cup {i} |->
            IF j = i THEN doc ELSE job_applications[j]]

JobApplicationResponse(i, application) ==
    [id |-> i, apply_for_available_jobs |-> application.apply_for_available_jobs,
     selected_job_id |-> application.selected_job_id, email |-> application.email,
     status |-> application.status, created_at |-> application.created_at,
     updated_at |-> application.updated_at]

\* A variant: the application is stored without the look for an earlier one.
create_job_application_NoDuplicateCheck(application_data) ==
    LET specific == /\ application_data.apply_for_available_jobs
                    /\ application_data.selected_job_id # <<>>
    IN  IF application_data.apply_for_available_jobs /\ application_data.selected_job_id = <<>>
        THEN Result(400, job_applications, <<>>)
        ELSE IF specific /\ ~\E i \in DOMAIN job_openings :
                                /\ job_openings[i].job_id = application_data.selected_job_id[1]
                                /\ job_openings[i].is_active = "Active"
        THEN Result(400, job_applications, <<>>)
        ELSE LET new_application ==
                     [apply_for_available_jobs |-> application_data.apply_for_available_jobs,
                      selected_job_id |-> application_data.selected_job_id,
                      email |-> application_data.email,
                      status |-> "Pending",
                      created_at |-> now, updated_at |-> now]
                 store == ApplicationSave(nextDocId, new_application)
             IN  Result(201, store, <<JobApplicationResponse(nextDocId, store[nextDocId])>>)

\* A variant: an application for available jobs may name no job.
create_job_application_NoIdRequired(application_data) ==
    LET specific == /\ application_data.apply_for_available_jobs
                    /\ application_data.selected_job_id # <<>>
    IN  IF specific /\ ~\E i \in DOMAIN job_openings :
                           /\ job_openings[i].job_id = application_data.selected_job_id[1]
                           /\ job_openings[i].is_active = "Active"
        THEN Result(400, job_applications, <<>>)
        ELSE IF specific /\ \E a \in DOMAIN job_applications :
                                /\ job_applications[a].email = application_data.email
                                /\ job_applications[a].selected_job_id
                                       = application_data.selected_job_id
        THEN Result(400, job_applications, <<>>)
        ELSE LET new_application ==
                     [apply_for_available_jobs |-> application_data.apply_for_available_jobs,
                      selected_job_id |-> application_data.selected_job_id,
                      email |-> application_data.email,
                      status |-> "Pending",
                      created_at |-> now, updated_at |-> now]
                 store == ApplicationSave(nextDocId, new_application)
             IN  Result(201, store, <<JobApplicationResponse(nextDocId, store[nextDocId])>>)

\* A variant: the write is refused when an application with the same email
\* for the same job is stored (a unique index on the pair).
SaveApplication_UniquePair(application_data) ==
    IF /\ application_data.selected_job_id # <<>>
       /\ \E a \in DOMAIN job_applications :
             /\ job_applications[a].email = application_data.email
             /\ job_applications[a].selected_job_id = application_data.selected_job_id
    THEN Result(500, job_applications, <<>>)
    ELSE LET store == ApplicationSave(nextDocId,
                          [apply_for_available_jobs |-> application_data.apply_for_available_jobs,
                           selected_job_id |-> application_data.selected_job_id,
                           email |-> application_data.email,
                           status |-> "Pending",
                           created_at |-> now, updated_at |-> now])
         IN  Result(201, store, <<JobApplicationResponse(nextDocId, store[nextDocId])>>)

\* The steps of create_job_application.  application_data:
\* apply_for_available_jobs, selected_job_id (<<>> when absent) and email.
\* The first two checks: a job id is missing, or names no Active opening.
JobNotActive(application_data) ==
    \/ application_data.apply_for_available_jobs /\ application_data.selected_job_id = <<>>
    \/ /\ application_data.apply_for_available_jobs
       /\ application_data.selected_job_id # <<>>
       /\ ~\E i \in DOMAIN job_openings :
              /\ job_openings[i].job_id = application_data.selected_job_id[1]
              /\ job_openings[i].is_active = "Active"

\* The third: JobApplication.objects(email=..., selected_job_id=...).first()
ExistingApplication(application_data) ==
    /\ application_data.apply_for_available_jobs
    /\ application_data.selected_job_id # <<>>
    /\ \E a \in DOMAIN job_applications :
          /\ job_applications[a].email = application_data.email
          /\ job_applications[a].selected_job_id = application_data.selected_job_id

\* new_application.save() and the response; the collection has no unique
\* index
SaveApplication(application_data) ==
    LET new_application ==
            [apply_for_available_jobs |-> application_data.apply_for_available_jobs,
             selected_job_id |-> application_data.selected_job_id,
             email |-> application_data.email,
             status |-> "Pending",
             created_at |-> now, updated_at |-> now]
        store == ApplicationSave(nextDocId, new_application)
    IN  Result(201, store, <<JobApplicationResponse(nextDocId, store[nextDocId])>>)

create_job_application(application_data) ==
    IF JobNotActive(application_data) THEN Result(400, job_applications, <<>>)
    ELSE IF ExistingApplication(application_data) THEN Result(400, job_applications, <<>>)
    ELSE SaveApplication(application_data)

\* order_by('-created_at'): the orders the store can return
ApplicationsNewestFirst(ids) ==
    {o \in [1..Cardinality(ids) -> ids] :
        /\ \A i, j \in DOMAIN o : i # j => o[i] # o[j]
        /\ \A i, j \in DOMAIN o : i < j =>
              job_applications[o[i]].created_at >= job_applications[o[j]].created_at}

\* q: page, limit, status and job_id (<<>> when absent)
ApplicationsMatching(q) ==
    {i \in DOMAIN job_applications :
        /\ (q.status # <<>> /\ q.status[1] \in ApplicationStatuses) =>
              job_applications[i].status = q.status[1]
        /\ q.job_id # <<>> => job_applications[i].selected_job_id = q.job_id}

get_job_applications(current_user, q, order) ==
    IF ~openings_validate_user_permissions(current_user)
    THEN Result(403, job_applications, <<>>)
    ELSE LET skip == (q.page - 1) * q.limit
             last == IF skip + q.limit < Len(order) THEN skip + q.limit ELSE Len(order)
             page == SubSeq(order, skip + 1, last)
         IN  Result(200, job_applications,
                    <<[applications |-> [k \in DOMAIN page |->
                           JobApplicationResponse(page[k], job_applications[page[k]])],
                       total |-> Len(order), page |-> q.page, limit |-> q.limit]>>)

get_job_application(current_user, application_id) ==
    IF ~openings_validate_user_permissions(current_user)
    THEN Result(403, job_applications, <<>>)
    ELSE IF application_id \notin DOMAIN job_applications
    THEN Result(404, job_applications, <<>>)
    ELSE Result(200, job_applications,
                <<JobApplicationResponse(application_id, job_applications[application_id])>>)

delete_job_application(current_user, application_id) ==
    IF ~openings_validate_user_permissions(current_user)
    THEN Result(403, job_applications, <<>>)
    ELSE IF application_id \notin DOMAIN job_applications
    THEN Result(404, job_applications, <<>>)
    ELSE Result(204, [j \in DOMAIN job_applications \ {application_id} |->
                         job_applications[j]], <<>>)

update_application_status(current_user, application_id, new_status) ==
    IF ~openings_validate_user_permissions(current_user)
    THEN Result(403, job_applications, <<>>)
    ELSE IF new_status \notin ApplicationStatuses THEN Result(400, job_applications, <<>>)
    ELSE IF application_id \notin DOMAIN job_applications
    THEN Result(404, job_applications, <<>>)
    ELSE LET store == ApplicationSave(application_id,
                 [job_applications[application_id] EXCEPT !.status = new_status])
         IN  Result(200, store,
                    <<JobApplicationResponse(application_id, store[application_id])>>)

-----------------------------------------------------------------------------
(* app/services/projects.py and app/models/projects.py.  A project is
   modelled by its title, status and timestamps. *)

ProjectStatuses == {"Completed", "In Progress", "Planning", "On Hold"}

projects_validate_user_permissions(current_user) ==
    IF current_user.kind = "super" THEN TRUE
    ELSE IF current_user.kind = "user" /\ current_user.id \in DOMAIN users
              /\ users[current_user.id].role = ADMIN THEN TRUE
    ELSE FALSE

\* Projects.save(): updated_at is refreshed, then the document is written
ProjectSave(i, project) ==
    LET doc == [project EXCEPT !.updated_at = now]
    IN  [j \in DOMAIN projects \cup {i} |-> IF j = i THEN doc ELSE projects[j]]

ProjectResponse(i, project) ==
    [id |-> i, title |-> project.title, status |-> project.status,
     created_at |-> project.created_at, updated_at |-> project.updated_at]

create_project(current_user, project_data) ==
    IF ~projects_validate_user_permissions(current_user) THEN Result(403, projects, <<>>)
    ELSE IF project_data.status \notin ProjectStatuses THEN Result(400, projects, <<>>)
    ELSE LET new_project == [title |-> project_data.title, status |-> project_data.status,
                             created_at |-> now, updated_at |-> now]
             store == ProjectSave(nextDocId, new_project)
         IN  Result(201, store, <<ProjectResponse(nextDocId, store[nextDocId])>>)

\* order_by('-created_at'): the orders the store can return
ProjectsNewestFirst(ids) ==
    {o \in [1..Cardinality(ids) -> ids] :
        /\ \A i, j \in DOMAIN o : i # j => o[i] # o[j]
        /\ \A i, j \in DOMAIN o : i < j =>
              projects[o[i]].created_at >= projects[o[j]].created_at}

\* q: page, limit, status (<<>> when absent), search (given or not)
ProjectsMatching(q) ==
    {i \in DOMAIN projects :
        (q.status # <<>> /\ q.status[1] \in ProjectStatuses) =>
            projects[i].status = q.status[1]}

get_projects_admin(current_user, q, order) ==
    IF ~projects_validate_user_permissions(current_user) THEN Result(403, projects, <<>>)
    \* the '$or' keyword is no field of Projects: the query raises
    ELSE IF q.search THEN Result(500, projects, <<>>)
    ELSE LET skip == (q.page - 1) * q.limit
             last == IF skip + q.limit < Len(order) THEN skip + q.limit ELSE Len(order)
             page == SubSeq(order, skip + 1, last)
         IN  Result(200, projects,
                    <<[projects |-> [k \in DOMAIN page |->
                           ProjectResponse(page[k], projects[page[k]])],
                       total |-> Len(order), page |-> q.page, limit |-> q.limit]>>)

\* project_data holds the fields the request sets; a field's value is <<v>>,
\* or <<>> when the request sets it to null.
update_project(current_user, project_id, project_data) ==
    LET given(f) == f \in DOMAIN project_data /\ project_data[f] # <<>>
        null(f) == f \in DOMAIN project_data /\ project_data[f] = <<>>
        set(p, f) == IF given(f) THEN project_data[f][1] ELSE p[f]
    IN  IF ~projects_validate_user_permissions(current_user) THEN Result(403, projects, <<>>)
        ELSE IF project_id \notin DOMAIN projects THEN Result(404, projects, <<>>)
        ELSE IF given("status") /\ project_data.status[1] \notin ProjectStatuses
        THEN Result(400, projects, <<>>)
        \* save() rejects a required field set to None
        ELSE IF null("title") \/ null("status") THEN Result(500, projects, <<>>)
        ELSE LET p == projects[project_id]
                 project == [p EXCEPT !.title = set(p, "title"),
                                      !.status = set(p, "status")]
                 store == ProjectSave(project_id, project)
             IN  Result(200, store, <<ProjectResponse(project_id, store[project_id])>>)

delete_project(current_user, project_id) ==
    IF ~projects_validate_user_permissions(current_user) THEN Result(403, projects, <<>>)
    ELSE IF project_id \notin DOMAIN projects THEN Result(404, projects, <<>>)
    ELSE Result(204, [j \in DOMAIN projects \ {project_id} |-> projects[j]], <<>>)

get_project_stats(current_user) ==
    IF ~projects_validate_user_permissions(current_user) THEN Result(403, projects, <<>>)
    ELSE LET count(S) == Cardinality({i \in DOMAIN projects : projects[i].status = S})
         IN  Result(200, projects,
                    <<[total_projects |-> Cardinality(DOMAIN projects),
                       status_breakdown |-> [S \in ProjectStatuses |-> count(S)]]>>)

-----------------------------------------------------------------------------
(* The requests *)

\* Signup bodies: every email with John's password, the superuser's email
\* also with the superuser's password, and one body with a malformed phone.
SignupInputs ==
    {[first_name |-> FirstName, last_name |-> LastName, email |-> e,
      password |-> PasswordJohn, phone |-> PhoneGood, role |-> r] :
         e \in Emails, r \in UserRoles}
    \cup {[first_name |-> FirstName, last_name |-> LastName, email |-> SUPERUSER_EMAIL,
           password |-> SUPERUSER_PASSWORD, phone |-> PhoneGood, role |-> r] :
              r \in UserRoles}
    \cup {[first_name |-> FirstName, last_name |-> LastName, email |-> EmailJohn,
           password |-> PasswordJohn, phone |-> PhoneBad, role |-> USER]}

\* Update bodies: the fields the request sets (see update_user).
UpdateInputs ==
    {[email |-> <<e>>] : e \in Emails} \cup {[email |-> <<>>]}
    \cup {[first_name |-> <<>>]} \cup {[phone |-> <<PhoneBad>>]}
    \cup {[role |-> <<r>>, is_active |-> <<a>>] : r \in UserRoles, a \in BOOLEAN}

ListInputs ==
    {[page |-> 1, limit |-> 10, role |-> <<>>, is_active |-> <<>>, search |-> FALSE],
     [page |-> 2, limit |-> 1, role |-> <<"owner">>, is_active |-> <<>>, search |-> FALSE],
     [page |-> 1, limit |-> 10, role |-> <<ADMIN>>, is_active |-> <<TRUE>>, search |-> FALSE],
     [page |-> 1, limit |-> 10, role |-> <<>>, is_active |-> <<>>, search |-> TRUE]}

\* The ids a request names: those handed out so far and one that never was.
UserIds == 1..(IF nextId < MaxUsers THEN nextId ELSE MaxUsers)

\* No request is being handled: the last response has gone out.
NoRequest == [op |-> "none", bearer |-> <<>>, args |-> <<>>]
NoResponse == [status |-> 0, body |-> <<>>, token |-> <<>>, challenge |-> FALSE]
Idle == req = NoRequest

\* A route behind Depends(get_current_user_dependency): 401 with the Bearer
\* challenge before the handler runs, else the handler H.
Protected(op, bearer, args, H(_)) ==
    LET current_user == get_current_user_dependency(bearer)
    IN  /\ req' = [op |-> op, bearer |-> bearer, args |-> args]
        /\ IF current_user.kind = "none"
           THEN /\ users' = users
                /\ resp' = Response(401, <<>>, <<>>, TRUE)
           ELSE LET o == H(current_user)
                IN  /\ users' = o.users
                    /\ resp' = Response(o.status, o.body, <<>>, FALSE)
        /\ UNCHANGED <<nextId, tokens, now, documents, outbox>>

SignupWith(bodies, limit) ==
    /\ Idle
    /\ \E user_data \in bodies :
        LET o == signup(user_data)
        IN  /\ o.status = 201 => nextId <= limit
            /\ req' = [op |-> "signup", bearer |-> <<>>, args |-> user_data]
            /\ users' = o.users
            /\ nextId' = IF o.status = 201 THEN nextId + 1 ELSE nextId
            /\ resp' = Response(o.status, o.body, <<>>, FALSE)
            /\ UNCHANGED <<tokens, now, documents, outbox>>

Signup == SignupWith(SignupInputs, MaxUsers)

Login ==
    /\ Idle
    /\ \E username \in Emails, password \in Passwords :
        LET o == login(username, password)
        IN  /\ o.status = 200 => Cardinality(tokens \cup {o.token[1]}) <= MaxTokens
            /\ req' = [op |-> "login", bearer |-> <<>>,
                       args |-> [username |-> username, password |-> password]]
            /\ tokens' = IF o.status = 200 THEN tokens \cup {o.token[1]} ELSE tokens
            /\ resp' = Response(o.status, o.body, o.token, o.status # 200)
            /\ UNCHANGED <<users, nextId, now, documents, outbox>>

Me ==
    /\ Idle
    /\ \E bearer \in Bearer :
        Protected("me", bearer, <<>>, LAMBDA cu : get_current_user_info(cu))

\* logout answers with a message and touches nothing; dropping the token is
\* left to the client (DropToken).
Logout ==
    /\ Idle
    /\ req' = [op |-> "logout", bearer |-> <<>>, args |-> <<>>]
    /\ resp' = Response(200, <<>>, <<>>, FALSE)
    /\ UNCHANGED <<users, nextId, tokens, now, documents, outbox>>

GetAllUsers ==
    /\ Idle
    /\ \E bearer \in Bearer, q \in ListInputs : \E order \in NewestFirst(UsersMatching(q)) :
        Protected("get_all_users", bearer, q, LAMBDA cu : get_all_users(cu, q, order))

GetUserById ==
    /\ Idle
    /\ \E bearer \in Bearer, user_id \in UserIds :
        Protected("get_user_by_id", bearer, [user_id |-> user_id],
                  LAMBDA cu : get_user_by_id(cu, user_id))

\* The four updates of a user, with the request bodies drawn from the sets given.
UpdateUserWith(bodies) ==
    /\ Idle
    /\ \E bearer \in Bearer, user_id \in UserIds, user_data \in bodies :
        Protected("update_user", bearer, [user_id |-> user_id, user_data |-> user_data],
                  LAMBDA cu : update_user(cu, user_id, user_data))

UpdateUserPasswordWith(passwords) ==
    /\ Idle
    /\ \E bearer \in Bearer, user_id \in UserIds, pw \in passwords :
        Protected("update_user_password", bearer, [user_id |-> user_id, new_password |-> pw],
                  LAMBDA cu : update_user_password(cu, user_id, pw))

UpdateUserStatusWith(values) ==
    /\ Idle
    /\ \E bearer \in Bearer, user_id \in UserIds, is_active \in values :
        Protected("update_user_status", bearer, [user_id |-> user_id, is_active |-> is_active],
                  LAMBDA cu : update_user_status(cu, user_id, is_active))

UpdateUserRoleWith(roles) ==
    /\ Idle
    /\ \E bearer \in Bearer, user_id \in UserIds, role \in roles :
        Protected("update_user_role", bearer, [user_id |-> user_id, role |-> role],
                  LAMBDA cu : update_user_role(cu, user_id, role))

UpdateUser == UpdateUserWith(UpdateInputs)
UpdateUserPassword == UpdateUserPasswordWith(Passwords \cup {PasswordShort})
UpdateUserStatus == UpdateUserStatusWith(BOOLEAN)
UpdateUserRole == UpdateUserRoleWith(UserRoles)

DeleteUser ==
    /\ Idle
    /\ \E bearer \in Bearer, user_id \in UserIds :
        Protected("delete_user", bearer, [user_id |-> user_id],
                  LAMBDA cu : delete_user(cu, user_id))

\* The requests to the content services

TitleHello == "Hello, World!"
SectionIntro == [heading |-> "Intro", description |-> "first words", sub_sections |-> <<>>]

BlogCreateInputs ==
    {[title |-> TitleHello, slug |-> <<>>, content |-> <<SectionIntro>>,
      tags |-> <<>>, is_published |-> "draft"]}
BlogUpdateInputs == {[is_published |-> <<"published">>]}
BlogStatusInputs == {"published", "hidden"}
BlogTagInputs == {<<>>}
BlogListInputs ==
    {[page |-> 1, limit |-> 10, is_published |-> <<>>, search |-> FALSE],
     [page |-> 1, limit |-> 10, is_published |-> <<"draft">>, search |-> TRUE]}
SectionAddInputs == {SectionIntro}
SectionUpdateInputs ==
    {[heading |-> "intro", new_heading |-> <<>>, description |-> <<"rewritten">>],
     [heading |-> "Other", new_heading |-> <<"Intro">>, description |-> <<>>]}
SectionDeleteInputs == {"intro"}

JobIds == {"JD-0028"}
JobCreateInputs == {[job_id |-> "JD-0028", type |-> "Full Time", is_active |-> "Active"]}
JobUpdateInputs == {[is_active |-> <<"Closed">>]}
JobStatusInputs == {"Closed", "Open"}

ApplicationInputs ==
    {[apply_for_available_jobs |-> FALSE, selected_job_id |-> <<>>, email |-> EmailJohn],
     [apply_for_available_jobs |-> TRUE, selected_job_id |-> <<>>, email |-> EmailJohn]}
ApplicationStatusInputs == {"Shortlisted"}
ApplicationListInputs == {[page |-> 1, limit |-> 10, status |-> <<>>, job_id |-> <<>>]}

ProjectCreateInputs ==
    {[title |-> "Clinic", status |-> "Planning"], [title |-> "Clinic", status |-> "Paused"]}
ProjectUpdateInputs == {[status |-> <<"Completed">>]}
ProjectListInputs == {[page |-> 1, limit |-> 10, status |-> <<>>, search |-> FALSE]}

\* The ids a request names: those handed out so far and one that never was.
DocIds == 1..(IF nextDocId < MaxDocs THEN nextDocId ELSE MaxDocs)

\* A route of a content service behind Depends(get_current_user_dependency):
\* 401 with the Bearer challenge before the handler runs, else the handler H,
\* whose result goes to the collection named.  A document that is created
\* takes the next id.
ProtectedContentUpTo(limit, op, bearer, args, collection, H(_)) ==
    LET current_user == get_current_user_dependency(bearer)
    IN  /\ req' = [op |-> op, bearer |-> bearer, args |-> args]
        /\ IF current_user.kind = "none"
           THEN /\ resp' = Response(401, <<>>, <<>>, TRUE)
                /\ UNCHANGED documents
           ELSE LET o == H(current_user)
                IN  /\ o.status = 201 => nextDocId <= limit
                    /\ blogs' = IF collection = "blogs" THEN o.store ELSE blogs
                    /\ job_openings' = IF collection = "job_openings" THEN o.store
                                       ELSE job_openings
                    /\ job_applications' = IF collection = "job_applications" THEN o.store
                                           ELSE job_applications
                    /\ projects' = IF collection = "projects" THEN o.store ELSE projects
                    /\ nextDocId' = IF o.status = 201 THEN nextDocId + 1 ELSE nextDocId
                    /\ resp' = Response(o.status, o.body, <<>>, FALSE)
        /\ UNCHANGED <<users, nextId, tokens, now, outbox>>

ProtectedContent(op, bearer, args, collection, H(_)) ==
    ProtectedContentUpTo(MaxDocs, op, bearer, args, collection, H)

CreateBlogWith(bodies, limit) ==
    /\ Idle
    /\ \E bearer \in Bearer, blog_data \in bodies :
        ProtectedContentUpTo(limit, "create_blog", bearer, blog_data, "blogs",
                             LAMBDA cu : create_blog(cu, blog_data))

CreateBlog == CreateBlogWith(BlogCreateInputs, MaxDocs)

GetAllBlogsAdmin ==
    /\ Idle
    /\ \E bearer \in Bearer, q \in BlogListInputs : \E order \in BlogsNewestFirst(BlogsMatching(q)) :
        ProtectedContent("get_all_blogs_admin", bearer, q, "blogs",
                         LAMBDA cu : get_all_blogs_admin(cu, q, order))

GetBlog ==
    /\ Idle
    /\ \E bearer \in Bearer, blog_id \in DocIds :
        ProtectedContent("get_blog", bearer, [blog_id |-> blog_id], "blogs",
                         LAMBDA cu : get_blog(cu, blog_id))

UpdateBlogWith(ids, bodies) ==
    /\ Idle
    /\ \E bearer \in Bearer, blog_id \in ids, blog_data \in bodies :
        ProtectedContent("update_blog", bearer, [blog_id |-> blog_id, blog_data |-> blog_data],
                         "blogs", LAMBDA cu : update_blog(cu, blog_id, blog_data))

UpdateBlog == UpdateBlogWith(DocIds, BlogUpdateInputs)

UpdateBlogStatusWith(values) ==
    /\ Idle
    /\ \E bearer \in Bearer, blog_id \in DocIds, is_published \in values :
        ProtectedContent("update_blog_status", bearer,
                         [blog_id |-> blog_id, is_published |-> is_published], "blogs",
                         LAMBDA cu : update_blog_status(cu, blog_id, is_published))

UpdateBlogStatus == UpdateBlogStatusWith(BlogStatusInputs)

UpdateBlogTags ==
    /\ Idle
    /\ \E bearer \in Bearer, blog_id \in DocIds, tags \in BlogTagInputs :
        ProtectedContent("update_blog_tags", bearer, [blog_id |-> blog_id, tags |-> tags],
                         "blogs", LAMBDA cu : update_blog_tags(cu, blog_id, tags))

DeleteBlogIn(ids) ==
    /\ Idle
    /\ \E bearer \in Bearer, blog_id \in ids :
        ProtectedContent("delete_blog", bearer, [blog_id |-> blog_id], "blogs",
                         LAMBDA cu : delete_blog(cu, blog_id))

DeleteBlog == DeleteBlogIn(DocIds)

\* A blog of the model holds at most MaxSections sections.
AddContentSectionWith(sections) ==
    /\ Idle
    /\ \E bearer \in Bearer, blog_id \in DocIds, section_data \in sections :
        /\ blog_id \in DOMAIN blogs => Len(blogs[blog_id].content) < MaxSections
        /\ ProtectedContent("add_content_section", bearer,
                            [blog_id |-> blog_id, section_data |-> section_data], "blogs",
                            LAMBDA cu : add_content_section(cu, blog_id, section_data))

AddContentSection == AddContentSectionWith(SectionAddInputs)

UpdateContentSection ==
    /\ Idle
    /\ \E bearer \in Bearer, blog_id \in DocIds, section_data \in SectionUpdateInputs :
        ProtectedContent("update_content_section", bearer,
                         [blog_id |-> blog_id, section_data |-> section_data], "blogs",
                         LAMBDA cu : update_content_section(cu, blog_id, section_data))

DeleteContentSectionWith(headings) ==
    /\ Idle
    /\ \E bearer \in Bearer, blog_id \in DocIds, heading \in headings :
        ProtectedContent("delete_content_section", bearer,
                         [blog_id |-> blog_id, heading |-> heading], "blogs",
                         LAMBDA cu : delete_content_section(cu, blog_id, heading))

DeleteContentSection == DeleteContentSectionWith(SectionDeleteInputs)

CreateJobOpeningWith(bodies, limit) ==
    /\ Idle
    /\ \E bearer \in Bearer, job_data \in bodies :
        ProtectedContentUpTo(limit, "create_job_opening", bearer, job_data, "job_openings",
                             LAMBDA cu : create_job_opening(cu, job_data))

CreateJobOpening == CreateJobOpeningWith(JobCreateInputs, MaxDocs)

UpdateJobOpeningWith(ids, bodies) ==
    /\ Idle
    /\ \E bearer \in Bearer, job_id \in ids, job_data \in bodies :
        ProtectedContent("update_job_opening", bearer, [job_id |-> job_id, job_data |-> job_data],
                         "job_openings", LAMBDA cu : update_job_opening(cu, job_id, job_data))

UpdateJobOpening == UpdateJobOpeningWith(JobIds, JobUpdateInputs)

DeleteJobOpeningIn(ids) ==
    /\ Idle
    /\ \E bearer \in Bearer, job_id \in ids :
        ProtectedContent("delete_job_opening", bearer, [job_id |-> job_id], "job_openings",
                         LAMBDA cu : delete_job_opening(cu, job_id))

DeleteJobOpening == DeleteJobOpeningIn(JobIds)

GetJobOpeningIn(ids) ==
    /\ Idle
    /\ \E job_id \in ids :
        LET o == get_job_opening(job_id)
        IN  /\ req' = [op |-> "get_job_opening", bearer |-> <<>>, args |-> [job_id |-> job_id]]
            /\ resp' = Response(o.status, o.body, <<>>, FALSE)
            /\ UNCHANGED <<users, nextId, tokens, now, documents, outbox>>

UpdateJobStatus ==
    /\ Idle
    /\ \E bearer \in Bearer, job_id \in JobIds, new_status \in JobStatusInputs :
        ProtectedContent("update_job_status", bearer,
                         [job_id |-> job_id, new_status |-> new_status], "job_openings",
                         LAMBDA cu : update_job_status(cu, job_id, new_status))

GetJobOpeningStats ==
    /\ Idle
    /\ \E bearer \in Bearer :
        ProtectedContent("get_job_opening_stats", bearer, <<>>, "job_openings",
                         LAMBDA cu : get_job_opening_stats(cu))

\* The public route: no token is asked for.
CreateJobApplicationWith(bodies, limit) ==
    /\ Idle
    /\ \E application_data \in bodies :
        LET o == create_job_application(application_data)
        IN  /\ o.status = 201 => nextDocId <= limit
            /\ req' = [op |-> "create_job_application", bearer |-> <<>>,
                       args |-> application_data]
            /\ job_applications' = o.store
            /\ nextDocId' = IF o.status = 201 THEN nextDocId + 1 ELSE nextDocId
            /\ resp' = Response(o.status, o.body, <<>>, FALSE)
            /\ UNCHANGED <<users, nextId, tokens, now, blogs, job_openings, projects, outbox>>

CreateJobApplication == CreateJobApplicationWith(ApplicationInputs, MaxDocs)

GetJobApplications ==
    /\ Idle
    /\ \E bearer \in Bearer, q \in ApplicationListInputs :
        \E order \in ApplicationsNewestFirst(ApplicationsMatching(q)) :
            ProtectedContent("get_job_applications", bearer, q, "job_applications",
                             LAMBDA cu : get_job_applications(cu, q, order))

GetJobApplication ==
    /\ Idle
    /\ \E bearer \in Bearer, application_id \in DocIds :
        ProtectedContent("get_job_application", bearer, [application_id |-> application_id],
                         "job_applications", LAMBDA cu : get_job_application(cu, application_id))

DeleteJobApplication ==
    /\ Idle
    /\ \E bearer \in Bearer, application_id \in DocIds :
        ProtectedContent("delete_job_application", bearer, [application_id |-> application_id],
                         "job_applications",
                         LAMBDA cu : delete_job_application(cu, application_id))

UpdateApplicationStatus ==
    /\ Idle
    /\ \E bearer \in Bearer, application_id \in DocIds, new_status \in ApplicationStatusInputs :
        ProtectedContent("update_application_status", bearer,
                         [application_id |-> application_id, status |-> new_status],
                         "job_applications",
                         LAMBDA cu : update_application_status(cu, application_id, new_status))

CreateProjectWith(bodies, limit) ==
    /\ Idle
    /\ \E bearer \in Bearer, project_data \in bodies :
        ProtectedContentUpTo(limit, "create_project", bearer, project_data, "projects",
                             LAMBDA cu : create_project(cu, project_data))

CreateProject == CreateProjectWith(ProjectCreateInputs, MaxDocs)

GetProjectsAdmin ==
    /\ Idle
    /\ \E bearer \in Bearer, q \in ProjectListInputs :
        \E order \in ProjectsNewestFirst(ProjectsMatching(q)) :
            ProtectedContent("get_projects_admin", bearer, q, "projects",
                             LAMBDA cu : get_projects_admin(cu, q, order))

UpdateProject ==
    /\ Idle
    /\ \E bearer \in Bearer, project_id \in DocIds, project_data \in ProjectUpdateInputs :
        ProtectedContent("update_project", bearer,
                         [project_id |-> project_id, project_data |-> project_data], "projects",
                         LAMBDA cu : update_project(cu, project_id, project_data))

DeleteProject ==
    /\ Idle
    /\ \E bearer \in Bearer, project_id \in DocIds :
        ProtectedContent("delete_project", bearer, [project_id |-> project_id], "projects",
                         LAMBDA cu : delete_project(cu, project_id))

GetProjectStats ==
    /\ Idle
    /\ \E bearer \in Bearer :
        ProtectedContent("get_project_stats", bearer, <<>>, "projects",
                         LAMBDA cu : get_project_stats(cu))

\* The response goes out; the server waits for the next request.
Respond ==
    /\ ~Idle
    /\ req' = NoRequest
    /\ resp' = NoResponse
    /\ UNCHANGED <<users, nextId, tokens, now, documents, outbox>>

\* The client forgets a token it holds.
DropToken ==
    /\ Idle
    /\ \E t \in tokens :
        /\ tokens' = tokens \ {t}
        /\ UNCHANGED <<users, nextId, now, documents, req, resp, outbox>>

\* Time passes.
Tick ==
    /\ Idle
    /\ now + ACCESS_TOKEN_EXPIRE_MINUTES <= MaxTime
    /\ now' = now + ACCESS_TOKEN_EXPIRE_MINUTES
    /\ UNCHANGED <<users, nextId, tokens, documents, req, resp, outbox>>

\* The content collections are empty.
NoContent ==
    /\ blogs = <<>>
    /\ job_openings = <<>>
    /\ job_applications = <<>>
    /\ projects = <<>>
    /\ nextDocId = 1

Init ==
    /\ users = <<>>
    /\ nextId = 1
    /\ tokens = {}
    /\ now = 0
    /\ outbox = <<>>
    /\ NoContent
    /\ req = NoRequest
    /\ resp = NoResponse

Next ==
    \/ Signup
    \/ Login
    \/ Me
    \/ Logout
    \/ GetAllUsers
    \/ GetUserById
    \/ UpdateUser
    \/ UpdateUserPassword
    \/ UpdateUserStatus
    \/ UpdateUserRole
    \/ DeleteUser
    \/ Respond
    \/ DropToken

Spec == Init /\ [][Next]_vars

-----------------------------------------------------------------------------
(* The protected routes.  The run starts where Spec can arrive: John has
   signed up and the superuser has activated him, as an admin or as a user;
   the clients hold the tokens that login returned to the superuser and to
   John at time 0, and these are in their last valid minute. *)

SeedUser ==
    [first_name |-> FirstName, last_name |-> LastName, email |-> EmailJohn,
     password |-> get_hashed_password(PasswordJohn), phone |-> PhoneGood,
     role |-> ADMIN, is_active |-> TRUE, created_at |-> 0, updated_at |-> 0]

SeedTokens ==
    {[sub |-> SUPERUSER_EMAIL, exp |-> ACCESS_TOKEN_EXPIRE_MINUTES, uid |-> 0],
     [sub |-> EmailJohn, exp |-> ACCESS_TOKEN_EXPIRE_MINUTES, uid |-> 1]}

InitRoutes ==
    /\ \E role \in UserRoles : users = [i \in {1} |-> [SeedUser EXCEPT !.role = role]]
    /\ nextId = 2
    /\ tokens = SeedTokens
    /\ now = ACCESS_TOKEN_EXPIRE_MINUTES
    /\ outbox = <<>>
    /\ NoContent
    /\ req = NoRequest
    /\ resp = NoResponse

\* The updates of a user that take an admin's rights or access away.
DemoteUser == UpdateUserWith({[role |-> <<USER>>]})
RehashPassword == UpdateUserPasswordWith({PasswordJohn, PasswordShort})
DeactivateUser == UpdateUserStatusWith({FALSE})
RevokeAdmin == UpdateUserRoleWith({USER})

NextRoutes ==
    \/ Me
    \/ GetAllUsers
    \/ GetUserById
    \/ DemoteUser
    \/ RehashPassword
    \/ DeactivateUser
    \/ RevokeAdmin
    \/ DeleteUser
    \/ CreateBlog
    \/ GetAllBlogsAdmin
    \/ GetBlog
    \/ UpdateBlog
    \/ UpdateBlogStatus
    \/ UpdateBlogTags
    \/ DeleteBlog
    \/ AddContentSection
    \/ UpdateContentSection
    \/ DeleteContentSection
    \/ CreateJobOpening
    \/ UpdateJobOpening
    \/ DeleteJobOpening
    \/ UpdateJobStatus
    \/ GetJobOpeningStats
    \/ CreateJobApplication
    \/ GetJobApplications
    \/ GetJobApplication
    \/ DeleteJobApplication
    \/ UpdateApplicationStatus
    \/ CreateProject
    \/ GetProjectsAdmin
    \/ UpdateProject
    \/ DeleteProject
    \/ GetProjectStats
    \/ Respond
    \/ Tick

SpecRoutes == InitRoutes /\ [][NextRoutes]_vars

-----------------------------------------------------------------------------
(* The blog routes that write a slug, called one after another by the
   superuser (and by callers without a valid token) with titles and slugs
   that collide. *)

TitleLower == "hello world"
SlugHello == "hello-world"
SlugHello1 == "hello-world-1"

BlogPostInputs ==
    {[title |-> t, slug |-> g, content |-> <<SectionIntro>>, tags |-> <<>>,
      is_published |-> "draft"] :
        <<t, g>> \in {<<TitleHello, <<>>>>, <<TitleLower, <<>>>>, <<TitleLower, <<SlugHello1>>>>}}

BlogRenameInputs ==
    {[title |-> <<TitleLower>>], [slug |-> <<SlugHello>>], [slug |-> <<SlugHello1>>]}

BlogIds == 1..(IF nextDocId < MaxBlogs THEN nextDocId ELSE MaxBlogs)

PostBlog == CreateBlogWith(BlogPostInputs, MaxBlogs)
RenameBlog == UpdateBlogWith(BlogIds, BlogRenameInputs)
RemoveBlog == DeleteBlogIn(BlogIds)

InitBlog ==
    /\ users = <<>>
    /\ nextId = 1
    /\ tokens = {[sub |-> SUPERUSER_EMAIL, exp |-> ACCESS_TOKEN_EXPIRE_MINUTES, uid |-> 0]}
    /\ now = 0
    /\ outbox = <<>>
    /\ NoContent
    /\ req = NoRequest
    /\ resp = NoResponse

NextBlog ==
    \/ PostBlog
    \/ RenameBlog
    \/ RemoveBlog
    \/ Respond

SpecBlog == InitBlog /\ [][NextBlog]_vars

-----------------------------------------------------------------------------
(* The sections of a blog, edited by the superuser while the clock moves:
   sections headed Intro and Other are added, rewritten and removed, by
   headings that match in another case and by headings that match nothing. *)

SectionOther == [heading |-> "Other", description |-> "more words", sub_sections |-> <<>>]

AddSection == AddContentSectionWith({SectionIntro, SectionOther})
RemoveSection == DeleteContentSectionWith({"intro", "Other"})

InitSections ==
    /\ users = <<>>
    /\ nextId = 1
    /\ tokens = {[sub |-> SUPERUSER_EMAIL, exp |-> ACCESS_TOKEN_EXPIRE_MINUTES, uid |-> 0]}
    /\ now = 0
    /\ outbox = <<>>
    /\ NoContent
    /\ req = NoRequest
    /\ resp = NoResponse

NextSections ==
    \/ CreateBlog
    \/ AddSection
    \/ UpdateContentSection
    \/ RemoveSection
    \/ Tick
    \/ Respond

SpecSections == InitSections /\ [][NextSections]_vars

-----------------------------------------------------------------------------
(* Applications, submitted one after another for an opening that the
   superuser closes and reopens, and for no opening. *)

SeedJob ==
    [job_id |-> "JD-0028", type |-> "Full Time", is_active |-> "Active",
     created_at |-> 0, updated_at |-> 0]

SubmitInputs ==
    {[apply_for_available_jobs |-> a, selected_job_id |-> j, email |-> e] :
        a \in BOOLEAN, j \in {<<>>, <<"JD-0028">>}, e \in {EmailJohn, EmailJohnCaps}}

Submit == CreateJobApplicationWith(SubmitInputs, MaxApplications + 1)

InitApply ==
    /\ users = <<>>
    /\ nextId = 1
    /\ tokens = {[sub |-> SUPERUSER_EMAIL, exp |-> ACCESS_TOKEN_EXPIRE_MINUTES, uid |-> 0]}
    /\ now = 0
    /\ outbox = <<>>
    /\ blogs = <<>>
    /\ job_openings = [i \in {1} |-> SeedJob]
    /\ job_applications = <<>>
    /\ projects = <<>>
    /\ nextDocId = 2
    /\ req = NoRequest
    /\ resp = NoResponse

NextApply ==
    \/ Submit
    \/ UpdateJobStatus
    \/ Respond

SpecApply == InitApply /\ [][NextApply]_vars

-----------------------------------------------------------------------------
(* Job openings, created, renamed, deleted and read one request after
   another.  A job_id of a request body may be the empty string; the job_id
   of a path is never empty. *)

JobPaths == {"JD-0028", "JD-0029"}

JobPostInputs ==
    {[job_id |-> j, type |-> "Full Time", is_active |-> "Active"] :
        j \in {"JD-0028", "JD-0029", ""}}

JobRenameInputs == {[job_id |-> <<j>>] : j \in {"JD-0028", "JD-0029", ""}}

PostJob == CreateJobOpeningWith(JobPostInputs, MaxOpenings)
RenameJob == UpdateJobOpeningWith(JobPaths, JobRenameInputs)
RemoveJob == DeleteJobOpeningIn(JobPaths)
ReadJob == GetJobOpeningIn(JobPaths)

InitOpenings ==
    /\ users = <<>>
    /\ nextId = 1
    /\ tokens = {[sub |-> SUPERUSER_EMAIL, exp |-> ACCESS_TOKEN_EXPIRE_MINUTES, uid |-> 0]}
    /\ now = 0
    /\ outbox = <<>>
    /\ NoContent
    /\ req = NoRequest
    /\ resp = NoResponse

NextOpenings ==
    \/ PostJob
    \/ RenameJob
    \/ RemoveJob
    \/ ReadJob
    \/ Respond

SpecOpenings == InitOpenings /\ [][NextOpenings]_vars

-----------------------------------------------------------------------------
(* create_job_application handled by several server processes at once.  A
   process runs one handler at a time (the handler is a coroutine that never
   awaits), so requests interleave only between processes; each query and
   each save is one step.  Here req and resp are indexed by process, and
   req[p].pc is the place of process p in the handler. *)

Processes == 1..MaxProcesses

RaceInputs ==
    {[apply_for_available_jobs |-> TRUE, selected_job_id |-> <<"JD-0028">>, email |-> EmailJohn],
     [apply_for_available_jobs |-> TRUE, selected_job_id |-> <<"JD-0028">>, email |-> EmailJohnCaps],
     [apply_for_available_jobs |-> TRUE, selected_job_id |-> <<>>, email |-> EmailJohn]}

InFlight == {p \in Processes : req[p] # NoRequest /\ req[p].pc # "done"}

\* the request reaches a process that is free
Accept(p) ==
    /\ req[p] = NoRequest
    /\ nextDocId + Cardinality(InFlight) <= MaxApplications + 1
    /\ \E application_data \in RaceInputs :
          req' = [req EXCEPT ![p] = [op |-> "create_job_application", bearer |-> <<>>,
                                     args |-> application_data, pc |-> "job"]]
    /\ UNCHANGED <<users, nextId, tokens, now, documents, resp, outbox>>

Answer(p, o) ==
    /\ req' = [req EXCEPT ![p].pc = "done"]
    /\ resp' = [resp EXCEPT ![p] = Response(o.status, o.body, <<>>, FALSE)]

\* the checks of the job id and of the opening
VerifyJob(p) ==
    /\ req[p] # NoRequest
    /\ req[p].pc = "job"
    /\ IF JobNotActive(req[p].args)
       THEN Answer(p, Result(400, job_applications, <<>>))
       ELSE req' = [req EXCEPT ![p].pc = "existing"] /\ UNCHANGED resp
    /\ UNCHANGED <<users, nextId, tokens, now, documents, outbox>>

\* the look for an earlier application
CheckExisting(p) ==
    /\ req[p] # NoRequest
    /\ req[p].pc = "existing"
    /\ IF ExistingApplication(req[p].args)
       THEN Answer(p, Result(400, job_applications, <<>>))
       ELSE req' = [req EXCEPT ![p].pc = "save"] /\ UNCHANGED resp
    /\ UNCHANGED <<users, nextId, tokens, now, documents, outbox>>

\* new_application.save()
WriteApplication(p) ==
    /\ req[p] # NoRequest
    /\ req[p].pc = "save"
    /\ LET o == SaveApplication(req[p].args)
       IN  /\ Answer(p, o)
           /\ job_applications' = o.store
           /\ nextDocId' = IF o.status = 201 THEN nextDocId + 1 ELSE nextDocId
    /\ UNCHANGED <<users, nextId, tokens, now, blogs, job_openings, projects, outbox>>

Return(p) ==
    /\ req[p] # NoRequest
    /\ req[p].pc = "done"
    /\ req' = [req EXCEPT ![p] = NoRequest]
    /\ resp' = [resp EXCEPT ![p] = NoResponse]
    /\ UNCHANGED <<users, nextId, tokens, now, documents, outbox>>

InitRace ==
    /\ users = <<>>
    /\ nextId = 1
    /\ tokens = {}
    /\ now = 0
    /\ outbox = <<>>
    /\ blogs = <<>>
    /\ job_openings = [i \in {1} |-> SeedJob]
    /\ job_applications = <<>>
    /\ projects = <<>>
    /\ nextDocId = 2
    /\ req = [p \in Processes |-> NoRequest]
    /\ resp = [p \in Processes |-> NoResponse]

NextRace ==
    \E p \in Processes :
        \/ Accept(p)
        \/ VerifyJob(p)
        \/ CheckExisting(p)
        \/ WriteApplication(p)
        \/ Return(p)

SpecRace == InitRace /\ [][NextRace]_vars

-----------------------------------------------------------------------------
(* signup, create_blog and create_job_opening handled by several server
   processes at once.  The handler's checks and look-ups are one step, the
   save of the document it has built is another; the save goes through the
   unique index of the collection.  req[p].doc is the document process p is
   about to save. *)

KeyInputs ==
    {[op |-> "signup", bearer |-> <<>>,
      args |-> [first_name |-> FirstName, last_name |-> LastName, email |-> e,
                password |-> PasswordJohn, phone |-> PhoneGood, role |-> USER]] :
        e \in {EmailJohn, EmailJohnCaps}}
    \cup {[op |-> "create_blog", bearer |-> <<Signed(t)>>,
           args |-> [title |-> TitleHello, slug |-> <<>>, content |-> <<SectionIntro>>,
                     tags |-> <<>>, is_published |-> "draft"]] : t \in tokens}
    \cup {[op |-> "create_job_opening", bearer |-> <<Signed(t)>>,
           args |-> [job_id |-> "JD-0028", type |-> "Full Time", is_active |-> "Active"]] :
              t \in tokens}

\* the request reaches a process that is free
AcceptCreate(p) ==
    /\ req[p] = NoRequest
    /\ (nextId - 1) + (nextDocId - 1) + Cardinality(InFlight) < MaxProcesses
    /\ \E request \in KeyInputs :
          req' = [req EXCEPT ![p] = [op |-> request.op, bearer |-> request.bearer,
                                     args |-> request.args, pc |-> "check", doc |-> <<>>]]
    /\ UNCHANGED <<users, nextId, tokens, now, documents, resp, outbox>>

\* The handler up to its save: the answer of the handler on the collection
\* as it is now tells whether the checks pass, and which document they built.
LookUp(p) ==
    /\ req[p] # NoRequest
    /\ req[p].pc = "check"
    /\ LET current_user == get_current_user_dependency(req[p].bearer)
           o == IF req[p].op = "signup"
                THEN [status |-> signup(req[p].args).status,
                      doc |-> signup(req[p].args).users]
                ELSE IF current_user.kind = "none" THEN [status |-> 401, doc |-> <<>>]
                ELSE IF req[p].op = "create_blog"
                THEN [status |-> create_blog(current_user, req[p].args).status,
                      doc |-> create_blog(current_user, req[p].args).store]
                ELSE [status |-> create_job_opening(current_user, req[p].args).status,
                      doc |-> create_job_opening(current_user, req[p].args).store]
           new == IF req[p].op = "signup" THEN nextId ELSE nextDocId
       IN  IF o.status # 201
           THEN Answer(p, Result(o.status, <<>>, <<>>))
           ELSE /\ req' = [req EXCEPT ![p].pc = "save", ![p].doc = <<o.doc[new]>>]
                /\ UNCHANGED resp
    /\ UNCHANGED <<users, nextId, tokens, now, documents, outbox>>

\* new_user.save(), blog.save(), new_job.save()
Insert(p) ==
    /\ req[p] # NoRequest
    /\ req[p].pc = "save"
    /\ IF req[p].op = "signup"
       THEN LET o == UserSaved(201, nextId, req[p].doc[1])
            IN  /\ Answer(p, Result(o.status, <<>>, o.body))
                /\ users' = o.users
                /\ nextId' = IF o.status = 201 THEN nextId + 1 ELSE nextId
                /\ UNCHANGED documents
       ELSE LET o == IF req[p].op = "create_blog"
                     THEN Saved(201, nextDocId, req[p].doc[1])
                     ELSE JobSaved(201, nextDocId, req[p].doc[1])
            IN  /\ Answer(p, o)
                /\ blogs' = IF req[p].op = "create_blog" THEN o.store ELSE blogs
                /\ job_openings' = IF req[p].op = "create_job_opening" THEN o.store
                                   ELSE job_openings
                /\ nextDocId' = IF o.status = 201 THEN nextDocId + 1 ELSE nextDocId
                /\ UNCHANGED <<users, nextId, job_applications, projects>>
    /\ UNCHANGED <<tokens, now, outbox>>

InitKeys ==
    /\ users = <<>>
    /\ nextId = 1
    /\ tokens = {[sub |-> SUPERUSER_EMAIL, exp |-> ACCESS_TOKEN_EXPIRE_MINUTES, uid |-> 0]}
    /\ now = 0
    /\ outbox = <<>>
    /\ NoContent
    /\ req = [p \in Processes |-> NoRequest]
    /\ resp = [p \in Processes |-> NoResponse]

NextKeys ==
    \E p \in Processes :
        \/ AcceptCreate(p)
        \/ LookUp(p)
        \/ Insert(p)
        \/ Return(p)

SpecKeys == InitKeys /\ [][NextKeys]_vars

-----------------------------------------------------------------------------
(* generate_slug on its own: a title is drawn, the function is applied to it,
   and then to its own result.  req holds the call, resp what it returned. *)

TitleAlphabet == {"A", "b", "1", "_", " ", "\t", "-", "!"}

ExampleTitle == <<"H","e","l","l","o",","," ","W","o","r","l","d","!"," "," ","F","o","o">>
ExampleSlug == <<"h","e","l","l","o","-","w","o","r","l","d","-","f","o","o">>

Titles ==
    UNION {[1..n -> TitleAlphabet] : n \in 0..MaxTitleLen} \cup {ExampleTitle}

InitSlug ==
    /\ users = <<>>
    /\ nextId = 1
    /\ tokens = {}
    /\ now = 0
    /\ outbox = <<>>
    /\ NoContent
    /\ \E title \in Titles : req = [op |-> "generate_slug", bearer |-> <<>>, args |-> title]
    /\ resp = NoResponse

GenerateSlug ==
    /\ req.op = "generate_slug"
    /\ resp = NoResponse
    /\ resp' = Response(200, <<SlugChars(req.args)>>, <<>>, FALSE)
    /\ UNCHANGED <<users, nextId, tokens, now, documents, req, outbox>>

GenerateSlugAgain ==
    /\ req.op = "generate_slug"
    /\ resp.status = 200
    /\ req' = [req EXCEPT !.args = resp.body[1]]
    /\ resp' = Response(200, <<SlugChars(resp.body[1])>>, <<>>, FALSE)
    /\ UNCHANGED <<users, nextId, tokens, now, documents, outbox>>

NextSlug ==
    \/ GenerateSlug
    \/ GenerateSlugAgain

SpecSlug == InitSlug /\ [][NextSlug]_vars

-----------------------------------------------------------------------------
(* The life of a token.  The run starts where Spec can arrive: John has
   signed up, the superuser has made him an active admin, and the clients
   hold tokens that login returned at time 0. *)

InitToken ==
    /\ users = [i \in {1} |-> SeedUser]
    /\ nextId = 2
    /\ tokens \in {S \in SUBSET SeedTokens : S # {} /\ Cardinality(S) <= MaxTokens}
    /\ now = 0
    /\ outbox = <<>>
    /\ NoContent
    /\ req = NoRequest
    /\ resp = NoResponse

NextToken ==
    \/ Me
    \/ Logout
    \/ UpdateUser
    \/ UpdateUserPassword
    \/ UpdateUserStatus
    \/ UpdateUserRole
    \/ DeleteUser
    \/ Respond
    \/ Tick

SpecToken == InitToken /\ [][NextToken]_vars

-----------------------------------------------------------------------------
(* app/services/contact.py and the mail helpers of app/utils.py *)

\* An uploaded file is a record of its name and its size in bytes; a file
\* that is absent (None) is <<>>, one that is there is <<file>>.
validate_file_size(file, max_size_mb) ==
    IF file = <<>> THEN TRUE
    ELSE LET file_size == file[1].size
             max_size_bytes == max_size_mb * 1024 * 1024
         IN  file_size <= max_size_bytes

\* The loop over the files, in the handlers and again in send_simple_email:
\* a named file above 10MB raises HTTPException(400).
TooLarge(files) ==
    \E i \in DOMAIN files :
        /\ files[i] # <<>>
        /\ files[i][1].filename # ""
        /\ ~validate_file_size(files[i], 10)

\* The files of app/templates; the handlers name these four.
Templates ==
    {"email_temp.html", "comfirmation_temp.html",
     "cv_email_temp.html", "cv_comfirmation_temp.html"}

\* The template with its variables filled in, or <<>> where the file is
\* missing (HTTPException(500)).
get_email_template(filename, context) ==
    IF filename \notin Templates THEN <<>>
    ELSE <<[template |-> filename, context |-> context]>>

\* What the SMTP server does with one connection.
SmtpOutcomes == {"accepted", "refused"}

\* A variant: a refused message is not reported to the caller.
send_simple_email_Swallow(recipients, subject, body, attachments, smtp) ==
    IF TooLarge(attachments) THEN [status |-> 500, sent |-> <<>>]
    ELSE IF smtp # "accepted" THEN [status |-> 200, sent |-> <<>>]
    ELSE LET attached(f) == f # <<>> /\ f[1].filename # ""
             msg == [To |-> recipients, Subject |-> subject, body |-> body,
                     attachments |-> SelectSeq(attachments, attached)]
         IN  [status |-> 200, sent |-> <<msg>>]

\* The named files are attached; every exception, the HTTPException(400) of
\* the size check included, leaves as HTTPException(500).
send_simple_email(recipients, subject, body, attachments, smtp) ==
    IF TooLarge(attachments) THEN [status |-> 500, sent |-> <<>>]
    ELSE IF smtp # "accepted" THEN [status |-> 500, sent |-> <<>>]
    ELSE LET attached(f) == f # <<>> /\ f[1].filename # ""
             msg == [To |-> recipients, Subject |-> subject, body |-> body,
                     attachments |-> SelectSeq(attachments, attached)]
         IN  [status |-> 200, sent |-> <<msg>>]

\* `except Exception as e: raise HTTPException(status_code=500, ...)` ends
\* both handlers: HTTPException is an Exception, so whatever is raised in the
\* body, with whatever status, is answered 500.
Reraised(status) == 500

\* The two routes, POST /send/email and POST /send/cv; both functions are
\* named send_email in the source.
MailOps == {"send_email", "send_cv"}

\* The message to the company, as the first call of send_simple_email gets it:
\* its template, subject and attachments.
notification(op, form, smtp) ==
    LET email_content ==
            IF op = "send_email"
            THEN get_email_template("email_temp.html",
                     [name |-> form.name, phone |-> form.contact,
                      address |-> form.address, message |-> form.message])
            ELSE get_email_template("cv_email_temp.html",
                     [name |-> form.full_name, phone |-> form.phone])
        subject == IF op = "send_email" THEN <<form.subject>>
                   ELSE <<"CV: ", form.full_name>>
    IN  IF email_content = <<>> THEN [status |-> 500, sent |-> <<>>]
        ELSE send_simple_email(form.email, subject, email_content[1], form.files, smtp)

\* The confirmation to the client, without attachments.
confirmation(op, form, smtp) ==
    LET confirmation_content ==
            IF op = "send_email"
            THEN get_email_template("comfirmation_temp.html",
                     [name |-> form.name, subject |-> <<form.subject>>,
                      message |-> form.message])
            ELSE get_email_template("cv_comfirmation_temp.html",
                     [name |-> form.full_name, subject |-> <<"CV: ", form.full_name>>])
        subject == IF op = "send_email" THEN <<"Confirmation: ", form.subject>>
                   ELSE <<"Confirmation CV: ", form.full_name>>
    IN  IF confirmation_content = <<>> THEN [status |-> 500, sent |-> <<>>]
        ELSE send_simple_email(form.email, subject, confirmation_content[1], <<>>, smtp)

\* Files of 10MB, of one byte more, and one of that size without a name.
FileInputs ==
    {[filename |-> "cv.pdf", size |-> 10 * 1024 * 1024],
     [filename |-> "scan.pdf", size |-> 10 * 1024 * 1024 + 1],
     [filename |-> "", size |-> 10 * 1024 * 1024 + 1]}

RECURSIVE FileLists(_)
FileLists(n) ==
    IF n = 0 THEN {<<>>}
    ELSE LET shorter == FileLists(n - 1)
         IN  shorter \cup {Append(fs, <<f>>) : fs \in shorter, f \in FileInputs}

\* The parameters are declared Form(...), so a request reaches the body of a
\* handler as form data with every field present.
MailForms(op) ==
    IF op = "send_email"
    THEN {[email |-> EmailJohn, subject |-> "Enquiry", message |-> "Hello",
           name |-> FirstName, contact |-> PhoneGood, address |-> "Pune",
           files |-> fs] : fs \in FileLists(MaxFiles)}
    ELSE {[full_name |-> FirstName, email |-> EmailJohn, phone |-> PhoneGood,
           files |-> fs] : fs \in FileLists(MaxFiles)}

\* A handler is followed line by line: req.pc is the step it is about to take.
AcceptMail ==
    /\ Idle
    /\ Len(outbox) < MaxMails
    /\ \E op \in MailOps : \E form \in MailForms(op) :
        req' = [op |-> op, bearer |-> <<>>, args |-> form, pc |-> "validate"]
    /\ UNCHANGED <<users, nextId, tokens, now, documents, resp, outbox>>

MailStep(pc) == ~Idle /\ req.op \in MailOps /\ req.pc = pc

ValidateFiles ==
    /\ MailStep("validate")
    /\ IF req.args.files # <<>> /\ TooLarge(req.args.files)
       THEN /\ resp' = Response(Reraised(400), <<>>, <<>>, FALSE)
            /\ req' = [req EXCEPT !.pc = "done"]
       ELSE /\ req' = [req EXCEPT !.pc = "notify"]
            /\ UNCHANGED resp
    /\ UNCHANGED <<users, nextId, tokens, now, documents, outbox>>

SendNotification ==
    /\ MailStep("notify")
    /\ \E smtp \in SmtpOutcomes :
        LET o == notification(req.op, req.args, smtp)
        IN  /\ outbox' = outbox \o o.sent
            /\ IF o.status = 200
               THEN req' = [req EXCEPT !.pc = "confirm"] /\ UNCHANGED resp
               ELSE /\ resp' = Response(Reraised(o.status), <<>>, <<>>, FALSE)
                    /\ req' = [req EXCEPT !.pc = "done"]
    /\ UNCHANGED <<users, nextId, tokens, now, documents>>

SendConfirmation ==
    /\ MailStep("confirm")
    /\ \E smtp \in SmtpOutcomes :
        LET o == confirmation(req.op, req.args, smtp)
        IN  /\ outbox' = outbox \o o.sent
            /\ resp' = IF o.status = 200
                       THEN Response(200, <<"Email sent successfully">>, <<>>, FALSE)
                       ELSE Response(Reraised(o.status), <<>>, <<>>, FALSE)
            /\ req' = [req EXCEPT !.pc = "done"]
    /\ UNCHANGED <<users, nextId, tokens, now, documents>>

ReturnMail ==
    /\ MailStep("done")
    /\ req' = NoRequest
    /\ resp' = NoResponse
    /\ UNCHANGED <<users, nextId, tokens, now, documents, outbox>>

InitMail ==
    /\ users = <<>>
    /\ nextId = 1
    /\ tokens = {}
    /\ now = 0
    /\ outbox = <<>>
    /\ NoContent
    /\ req = NoRequest
    /\ resp = NoResponse

NextMail ==
    \/ AcceptMail
    \/ ValidateFiles
    \/ SendNotification
    \/ SendConfirmation
    \/ ReturnMail

SpecMail == InitMail /\ [][NextMail]_vars

-----------------------------------------------------------------------------
(* The blog routes as the public and a stored user see them *)

ChangeBlogStatus == UpdateBlogStatusWith(BlogStatuses)

\* The two public routes: no token is asked for.
GetBlogs ==
    /\ Idle
    /\ \E q \in {[page |-> 1, limit |-> 10], [page |-> 2, limit |-> 1]} :
       \E order \in BlogsNewestFirst({i \in DOMAIN blogs : blogs[i].is_published = "published"}) :
        LET o == get_blogs(q, order)
        IN  /\ req' = [op |-> "get_blogs", bearer |-> <<>>, args |-> q]
            /\ resp' = Response(o.status, o.body, <<>>, FALSE)
            /\ UNCHANGED <<users, nextId, tokens, now, documents, outbox>>

GetBlogBySlug ==
    /\ Idle
    /\ \E slug \in {SlugHello, SlugHello1} :
        LET o == get_blog_by_slug(slug)
        IN  /\ req' = [op |-> "get_blog_by_slug", bearer |-> <<>>, args |-> [slug |-> slug]]
            /\ resp' = Response(o.status, o.body, <<>>, FALSE)
            /\ UNCHANGED <<users, nextId, tokens, now, documents, outbox>>

NextPublic ==
    \/ CreateBlog
    \/ UpdateBlog
    \/ ChangeBlogStatus
    \/ DeleteBlog
    \/ GetBlogs
    \/ GetBlogBySlug
    \/ GetBlog
    \/ Respond

SpecPublic == InitRoutes /\ [][NextPublic]_vars

-----------------------------------------------------------------------------
(* Accounts that come, change their email and go, from an empty store *)

AccountSignups ==
    {[first_name |-> FirstName, last_name |-> LastName, email |-> e,
      password |-> PasswordJohn, phone |-> PhoneGood, role |-> r] :
         e \in {EmailJohn, SUPERUSER_EMAIL}, r \in UserRoles}

OpenAccount == SignupWith(AccountSignups, MaxUsers)
ActivateUser == UpdateUserStatusWith({TRUE})
ChangeEmail == UpdateUserWith({[email |-> <<e>>] : e \in {EmailJohn, SUPERUSER_EMAIL}})

NextAccounts ==
    \/ OpenAccount
    \/ Login
    \/ ActivateUser
    \/ ChangeEmail
    \/ DeleteUser
    \/ Me
    \/ GetAllUsers
    \/ DropToken
    \/ Respond

SpecAccounts == Init /\ [][NextAccounts]_vars

-----------------------------------------------------------------------------
(* Every protected route and login, for a stored admin who holds a token *)

\* The email and password of the stored admin: John's, or those of the
\* configured superuser, which signup accepts like any other.
StatusSeeds == {<<EmailJohn, PasswordJohn>>, <<SUPERUSER_EMAIL, SUPERUSER_PASSWORD>>}

\* The superuser and the stored admin have logged in; login has answered the
\* admin whose credentials are the superuser's with the superuser's token.
InitStatus ==
    /\ \E c \in StatusSeeds :
          users = [i \in {1} |-> [SeedUser EXCEPT
                                     !.email = c[1],
                                     !.password = get_hashed_password(c[2])]]
    /\ nextId = 2
    /\ tokens = {[sub |-> SUPERUSER_EMAIL, exp |-> ACCESS_TOKEN_EXPIRE_MINUTES, uid |-> 0]}
                \cup {[sub |-> users[1].email, exp |-> ACCESS_TOKEN_EXPIRE_MINUTES,
                       uid |-> IF users[1].email = SUPERUSER_EMAIL THEN 0 ELSE 1]}
    /\ now = 0
    /\ outbox = <<>>
    /\ NoContent
    /\ req = NoRequest
    /\ resp = NoResponse

NextStatus ==
    \/ Login
    \/ Me
    \/ GetAllUsers
    \/ GetUserById
    \/ DeactivateUser
    \/ DeleteUser
    \/ CreateBlog
    \/ GetAllBlogsAdmin
    \/ GetBlog
    \/ UpdateBlog
    \/ UpdateBlogStatus
    \/ UpdateBlogTags
    \/ DeleteBlog
    \/ AddContentSection
    \/ UpdateContentSection
    \/ DeleteContentSection
    \/ CreateJobOpening
    \/ UpdateJobOpening
    \/ DeleteJobOpening
    \/ UpdateJobStatus
    \/ GetJobOpeningStats
    \/ CreateJobApplication
    \/ GetJobApplications
    \/ GetJobApplication
    \/ DeleteJobApplication
    \/ UpdateApplicationStatus
    \/ CreateProject
    \/ GetProjectsAdmin
    \/ UpdateProject
    \/ DeleteProject
    \/ GetProjectStats
    \/ Respond

SpecStatus == InitStatus /\ [][NextStatus]_vars

-----------------------------------------------------------------------------
(* Every route that writes a record, from an empty store while time passes *)

\* Records of whatever kind are created up to MaxStamped in all.
UsersUpTo == MaxStamped - (nextDocId - 1)
DocsUpTo == MaxStamped - (nextId - 1)

StampSignupInputs ==
    {[first_name |-> FirstName, last_name |-> LastName, email |-> EmailJohn,
      password |-> PasswordJohn, phone |-> PhoneGood, role |-> ADMIN]}

StoreUser == SignupWith(StampSignupInputs, UsersUpTo)
StoreBlog == CreateBlogWith(BlogCreateInputs, DocsUpTo)
StoreOpening == CreateJobOpeningWith(JobCreateInputs, DocsUpTo)
StoreApplication == CreateJobApplicationWith(ApplicationInputs, DocsUpTo)
StoreProject == CreateProjectWith(ProjectCreateInputs, DocsUpTo)

NextStamps ==
    \/ StoreUser
    \/ DemoteUser
    \/ RehashPassword
    \/ DeactivateUser
    \/ RevokeAdmin
    \/ DeleteUser
    \/ StoreBlog
    \/ UpdateBlog
    \/ UpdateBlogStatus
    \/ UpdateBlogTags
    \/ DeleteBlog
    \/ AddContentSection
    \/ UpdateContentSection
    \/ DeleteContentSection
    \/ StoreOpening
    \/ UpdateJobOpening
    \/ UpdateJobStatus
    \/ DeleteJobOpening
    \/ StoreApplication
    \/ UpdateApplicationStatus
    \/ DeleteJobApplication
    \/ StoreProject
    \/ UpdateProject
    \/ DeleteProject
    \/ Respond
    \/ Tick

SpecStamps == InitBlog /\ [][NextStamps]_vars

-----------------------------------------------------------------------------
(* Claims about login *)

\* C1: a login with the configured superuser email and password succeeds and
\* returns a token whose subject is the superuser email, in every reachable
\* state of the user store: both for the request as it would be handled when
\* the server waits for one, and for every such request that was handled.
C1_SuperuserLoginSucceeds ==
    /\ Idle => LET o == login(SUPERUSER_EMAIL, SUPERUSER_PASSWORD)
       IN  /\ o.status = 200
           /\ o.user = superUser
           /\ o.token # <<>> /\ o.token[1].sub = SUPERUSER_EMAIL
    /\ (/\ req.op = "login"
        /\ req.args.username = SUPERUSER_EMAIL
        /\ req.args.password = SUPERUSER_PASSWORD)
       => /\ resp.status = 200
          /\ resp.token # <<>> /\ resp.token[1].sub = SUPERUSER_EMAIL

\* The superuser has logged in while a stored, inactive user holds the same
\* email with another password.
C1_Witness ==
    /\ req.op = "login"
    /\ req.args.username = SUPERUSER_EMAIL
    /\ req.args.password = SUPERUSER_PASSWORD
    /\ resp.status = 200
    /\ \E i \in DOMAIN users :
          /\ users[i].email = SUPERUSER_EMAIL
          /\ ~users[i].is_active
          /\ ~verify_password(SUPERUSER_PASSWORD, users[i].password)

C3_LoginAfterSignup ==
    (req.op = "signup" /\ resp.status = 201 /\ req.args.role = USER) =>
        LET o == login(req.args.email, req.args.password)
        IN  o.status = 200 /\ o.token # <<>>

-----------------------------------------------------------------------------
(* Claims about the user store *)

\* C7: a user enters the store only through signup and then with is_active
\* false; is_active and role of a stored user change only in a step of
\* update_user, update_user_status or update_user_role on that user, made by
\* a caller that validate_admin_permissions accepts.
C7_ActivationOnlyByAdmin ==
    [][/\ \A i \in DOMAIN users' \ DOMAIN users :
             /\ req'.op = "signup"
             /\ ~users'[i].is_active
       /\ \A i \in DOMAIN users \cap DOMAIN users' :
             (\/ users'[i].is_active # users[i].is_active
              \/ users'[i].role # users[i].role) =>
                /\ req'.op \in {"update_user", "update_user_status", "update_user_role"}
                /\ req'.args.user_id = i
                /\ validate_admin_permissions(get_current_user_dependency(req'.bearer))]_vars

\* A stored admin has activated a user that signup had stored inactive.
C7_Witness ==
    /\ req.op = "update_user_status"
    /\ resp.status = 200
    /\ req.bearer # <<>> /\ req.bearer[1].uid # 0
    /\ req.args.is_active
    /\ req.args.user_id \in DOMAIN users
    /\ users[req.args.user_id].is_active
    /\ req.args.user_id # req.bearer[1].uid

\* C8: a request that bears a token login issued to the stored user U never
\* deletes U's own record.
C8_NoSelfDelete ==
    (/\ req.op = "delete_user"
     /\ req.bearer # <<>>
     /\ req.bearer[1].sig
     /\ req.bearer[1].uid # 0
     /\ req.bearer[1].uid = req.args.user_id) => resp.status # 204

\* C9: every stored email is lower-case and no two stored users share one; a
\* signup or an update_user whose lower-cased email belongs to another stored
\* user is answered 400 and leaves the store as it was.
C9_EmailsLowerAndUnique ==
    /\ \A i \in DOMAIN users : users[i].email = Lower(users[i].email)
    /\ \A i, j \in DOMAIN users : i # j => users[i].email # users[j].email
    /\ Idle => \A d \in SignupInputs :
          FirstByEmail(Lower(d.email)) # 0 => signup(d) = Raise(400)
    /\ Idle => \A i \in DOMAIN users, e \in Emails :
          FirstByEmail(Lower(e)) \notin {0, i} =>
              update_user(superUser, i, [email |-> <<e>>]) = Raise(400)

\* A signup that spells a stored email in capitals was answered 400.
C9_Witness ==
    /\ req.op = "signup"
    /\ req.args.email = EmailJohnCaps
    /\ req.args.phone = PhoneGood
    /\ resp.status = 400
    /\ \E i \in DOMAIN users : users[i].email = EmailJohn
    /\ \E i \in DOMAIN users : users[i].email = SUPERUSER_EMAIL

\* The user records a response body carries.
UsersIn(body) ==
    IF body = <<>> THEN {}
    ELSE IF "users" \in DOMAIN body[1]
    THEN {body[1].users[k] : k \in DOMAIN body[1].users}
    ELSE {body[1]}

\* The fields of UserResponseSchema that hold text.
TextFields == {"first_name", "last_name", "email", "phone", "role"}

\* The passwords the clients have typed.
Plaintexts == Passwords \cup {PasswordShort}

\* C10: the store holds a hash of each password and never the password as
\* typed; no response carries a password field, nor any field whose value is
\* a typed password or a stored hash.
C10_PasswordNeverPlain ==
    /\ \A i \in DOMAIN users :
          /\ users[i].password \notin Plaintexts
          /\ \E p \in Plaintexts : verify_password(p, users[i].password)
    /\ \A r \in UsersIn(resp.body) :
          /\ "password" \notin DOMAIN r
          /\ \A f \in DOMAIN r \cap TextFields :
                /\ r[f] \notin Plaintexts
                /\ \A i \in DOMAIN users : r[f] # users[i].password

\* An admin has set a user's password and the response shows the user.
C10_Witness ==
    /\ req.op = "update_user_password"
    /\ resp.status = 200
    /\ req.args.new_password = SUPERUSER_PASSWORD
    /\ UsersIn(resp.body) # {}
    /\ \E i \in DOMAIN users :
          /\ i = req.args.user_id
          /\ verify_password(SUPERUSER_PASSWORD, users[i].password)

-----------------------------------------------------------------------------
(* Claims about tokens *)

\* get_current_user_dependency lets the request through.
Accepted(t) == get_current_user_dependency(<<Signed(t)>>).kind # "none"

\* The step deletes a user or gives a user another email.
RemovesAnEmail ==
    \/ req'.op = "delete_user" /\ resp'.status = 204
    \/ /\ req'.op = "update_user"
       /\ resp'.status = 200
       /\ "email" \in DOMAIN req'.args.user_data

\* C5 as stated: a token that is accepted stays accepted until it expires,
\* whatever the step in between.
C5_AcceptedUntilExpiry ==
    [][\A t \in tokens : (Accepted(t) /\ t.exp >= now') => Accepted(t)']_vars

\* C5, amended: an unexpired token is accepted exactly when its subject is
\* the superuser email or the email of a stored user; so a token that is
\* accepted stays accepted until it expires over every step that neither
\* deletes a user nor changes a user's email (logout, password change, role
\* and status change among them), and after such a step it is accepted only
\* if a stored user still holds its subject.
C5_AcceptedWhileSubjectStored ==
    [][\A t \in tokens :
          (Accepted(t) /\ t.exp >= now') =>
              /\ Accepted(t)' <=> \/ t.sub = SUPERUSER_EMAIL
                                  \/ \E i \in DOMAIN users' : users'[i].email = t.sub
              /\ ~RemovesAnEmail => Accepted(t)']_vars

\* John's token has passed /me after his password, role and status were
\* changed and a logout was answered, at the last minute of its life.
C5_Witness ==
    /\ req.op = "me"
    /\ resp.status = 200
    /\ req.bearer[1].uid = 1
    /\ now = req.bearer[1].exp
    /\ 1 \in DOMAIN users
    /\ users[1].email = req.bearer[1].sub
    /\ ~users[1].is_active
    /\ users[1].role = USER
    /\ verify_password(SUPERUSER_PASSWORD, users[1].password)

-----------------------------------------------------------------------------
(* Claims about the protected routes *)

\* The routes that ask for no token.
PublicOps == {"signup", "login", "logout", "create_job_application"}

\* The operations C6 names: create, update and delete of a Blog, JobOpening,
\* Project or User, status update and delete of a JobApplication.
MutatingOps ==
    {"update_user", "update_user_password", "update_user_status", "update_user_role",
     "delete_user",
     "create_blog", "update_blog", "update_blog_status", "update_blog_tags", "delete_blog",
     "add_content_section", "update_content_section", "delete_content_section",
     "create_job_opening", "update_job_opening", "delete_job_opening", "update_job_status",
     "create_project", "update_project", "delete_project",
     "delete_job_application", "update_application_status"}

\* The header carries a token that is expired or signed with another key.
Rejected(bearer) == bearer # <<>> /\ (~bearer[1].sig \/ bearer[1].exp < now)

\* The identity is the Superuser or a stored user whose role is admin.
IsAdmin(identity) ==
    \/ identity.kind = "super"
    \/ /\ identity.kind = "user"
       /\ identity.id \in DOMAIN users
       /\ users[identity.id].role = ADMIN

\* C4: a request to a protected route that carries an expired token, or a
\* token whose signature does not verify, is answered 401 with the Bearer
\* challenge and nothing else, and no collection changes.
C4_RejectedTokenChangesNothing ==
    [][(Idle /\ req'.op \notin PublicOps \cup {"none"} /\ Rejected(req'.bearer)) =>
          /\ resp' = Response(401, <<>>, <<>>, TRUE)
          /\ UNCHANGED <<users, nextId, documents>>]_vars

\* A delete of a stored blog came with a token that was good a tick ago and
\* has expired: 401, and the blog is still there.
C4_Witness ==
    /\ req.op = "delete_blog"
    /\ req.bearer # <<>>
    /\ req.bearer[1].sig
    /\ req.bearer[1].exp < now
    /\ req.args.blog_id \in DOMAIN blogs
    /\ resp.status = 401
    /\ resp.challenge

\* C6: a mutating operation changes a collection only when the identity the
\* token resolves to is the Superuser or a stored admin; for any other
\* resolved identity the answer is 403 and every collection is unchanged.
C6_OnlyAdminsChangeTheStore ==
    [][(Idle /\ req'.op \in MutatingOps) =>
          LET identity == get_current_user_dependency(req'.bearer)
          IN  /\ <<users, nextId, documents>>' # <<users, nextId, documents>>
                     => IsAdmin(identity)
              /\ (identity.kind # "none" /\ ~IsAdmin(identity)) =>
                     /\ resp'.status = 403
                     /\ UNCHANGED <<users, nextId, documents>>]_vars

\* John, whose role is now user, asked with his valid token to delete a
\* stored blog: 403, and the blog is still there.
C6_Witness ==
    /\ req.op = "delete_blog"
    /\ resp.status = 403
    /\ req.bearer # <<>>
    /\ req.bearer[1].uid = 1
    /\ 1 \in DOMAIN users
    /\ users[1].role = USER
    /\ req.args.blog_id \in DOMAIN blogs

-----------------------------------------------------------------------------
(* Claims about /me *)

\* C11: whenever a login succeeds, the token it returns, presented to /me at
\* once (same clock, same user store), is answered 200 with the email and the
\* role that the login response showed.
C11_MeShowsWhoLoggedIn ==
    Idle => \A e \in Emails, p \in Passwords \cup {PasswordShort} :
        LET o == login(e, p)
        IN  o.status = 200 =>
               LET identity == get_current_user_dependency(<<Signed(o.token[1])>>)
               IN  /\ identity.kind # "none"
                   /\ LET me == get_current_user_info(identity)
                      IN  /\ me.status = 200
                          /\ me.users = users
                          /\ me.body[1].email = o.body[1].email
                          /\ me.body[1].role = o.body[1].role

\* A stored admin has presented the token login gave him to /me and sees
\* his own email and role.
C11_Witness ==
    /\ req.op = "me"
    /\ resp.status = 200
    /\ req.bearer # <<>>
    /\ req.bearer[1].uid \in DOMAIN users
    /\ login(users[req.bearer[1].uid].email, PasswordJohn).status = 200
    /\ req.bearer[1].sub # SUPERUSER_EMAIL
    /\ resp.body[1].email = users[req.bearer[1].uid].email
    /\ resp.body[1].role = ADMIN

-----------------------------------------------------------------------------
(* Slugs *)

\* The slug a request to update_blog asks for: the one it gives, or the one
\* derived from the title it gives.
AskedSlug(blog_data) ==
    IF "slug" \in DOMAIN blog_data /\ blog_data.slug # <<>> THEN blog_data.slug[1]
    ELSE generate_slug(blog_data.title[1])

\* C12: after any sequence of create_blog, update_blog and delete_blog calls
\* made one after another, no two stored blogs have the same slug.
C12_SlugsUnique ==
    \A a, b \in DOMAIN blogs : a # b => blogs[a].slug # blogs[b].slug

\* An update has just asked for the slug another blog holds and was answered
\* 200; the updated blog is stored under a different slug.
C12_Witness ==
    /\ req.op = "update_blog"
    /\ resp.status = 200
    /\ \E other \in DOMAIN blogs :
          /\ other # req.args.blog_id
          /\ blogs[other].slug = AskedSlug(req.args.blog_data)
    /\ blogs[req.args.blog_id].slug # AskedSlug(req.args.blog_data)
    /\ Cardinality(DOMAIN blogs) >= 2

\* r is x when no blog other than exclude_id holds x, and otherwise the first
\* of x-1, x-2, ... that no blog other than exclude_id holds.
FirstFree(x, exclude_id, r) ==
    IF ~SlugTaken(x, exclude_id) THEN r = x
    ELSE \E n \in 1..Cardinality(DOMAIN blogs) :
            /\ r = Suffixed(x, n)
            /\ ~SlugTaken(r, exclude_id)
            /\ \A k \in 1..(n - 1) : SlugTaken(Suffixed(x, k), exclude_id)

\* C13: ensure_unique_slug returns the slug it is given when that is free,
\* and otherwise the first of x-1, x-2, ... that no other blog holds; and a
\* create_blog that was answered 201 has stored the new blog under exactly
\* that slug (x for the first blog deriving x, x-1 for the second).
C13_FirstFreeSlug ==
    /\ Idle => \A x \in {SlugHello, SlugHello1}, exclude_id \in {0} \cup DOMAIN blogs :
                  FirstFree(x, exclude_id, ensure_unique_slug(x, exclude_id))
    /\ (req.op = "create_blog" /\ resp.status = 201) =>
          LET new == resp.body[1].id
              x == IF req.args.slug # <<>> THEN req.args.slug[1]
                   ELSE generate_slug(req.args.title)
          IN  /\ new \in DOMAIN blogs
              /\ resp.body[1].slug = blogs[new].slug
              /\ FirstFree(x, new, blogs[new].slug)

\* Two blogs whose titles differ and derive the same slug were created one
\* after the other: the first holds hello-world, the second hello-world-1.
C13_Witness ==
    /\ req.op = "create_blog"
    /\ resp.status = 201
    /\ req.args.slug = <<>>
    /\ DOMAIN blogs = {1, 2}
    /\ resp.body[1].id = 2
    /\ blogs[1].title # blogs[2].title
    /\ generate_slug(blogs[1].title) = SlugHello
    /\ generate_slug(blogs[2].title) = SlugHello
    /\ blogs[1].slug = SlugHello
    /\ blogs[2].slug = SlugHello1

\* C14: generate_slug applied to its own result returns it unchanged; the
\* result is lower-case and has no whitespace, no two hyphens in a row and no
\* hyphen at either end; "Hello, World!  Foo" gives "hello-world-foo".
C14_SlugIdempotent ==
    (req.op = "generate_slug" /\ resp.status = 200) =>
        LET slug == resp.body[1]
        IN  /\ SlugChars(slug) = slug
            /\ \A i \in DOMAIN slug :
                  /\ slug[i] \notin Whitespace
                  /\ slug[i] \notin DOMAIN ToLower
                  /\ LowerChar(slug[i]) = slug[i]
                  /\ i < Len(slug) => ~(slug[i] = "-" /\ slug[i + 1] = "-")
            /\ slug # <<>> => slug[1] # "-" /\ slug[Len(slug)] # "-"
            /\ req.args = ExampleTitle => slug = ExampleSlug

\* The example title was slugged, and so was a title whose punctuation,
\* whitespace and hyphens all had to go.
C14_Witness ==
    /\ req.op = "generate_slug"
    /\ resp.status = 200
    /\ \/ req.args = ExampleTitle /\ resp.body[1] = ExampleSlug
       \/ req.args = <<"-", "A", " ", "!">> /\ resp.body[1] = <<"a">>

-----------------------------------------------------------------------------
(* Sections *)

\* No section of the stored blog has the heading, compared in lower case.
NoSectionHeaded(blog_id, heading) ==
    \A k \in DOMAIN blogs[blog_id].content :
        Lower(blogs[blog_id].content[k].heading) # Lower(heading)

\* C15: update_content_section and delete_content_section, called by an
\* administrator on a stored blog with a heading that matches none of its
\* sections in any case, answer 404 and leave the blogs collection as it was
\* (sections, their order, updated_at); and whenever either answers 404 the
\* collection is unchanged.
C15_MissingSectionChangesNothing ==
    [][(Idle /\ req'.op \in {"update_content_section", "delete_content_section"}) =>
          LET heading == IF req'.op = "update_content_section"
                         THEN req'.args.section_data.heading ELSE req'.args.heading
              blog_id == req'.args.blog_id
          IN  /\ resp'.status = 404 => blogs' = blogs
              /\ (/\ get_current_user_dependency(req'.bearer).kind = "super"
                  /\ blog_id \in DOMAIN blogs
                  /\ NoSectionHeaded(blog_id, heading))
                 => resp'.status = 404 /\ blogs' = blogs]_vars

\* A blog last saved at an earlier time, holding a section, has just been
\* asked for a section it does not hold and answered 404; it is stored as it
\* was saved then.
C15_Witness ==
    /\ req.op \in {"update_content_section", "delete_content_section"}
    /\ resp.status = 404
    /\ req.args.blog_id \in DOMAIN blogs
    /\ blogs[req.args.blog_id].content # <<>>
    /\ blogs[req.args.blog_id].updated_at < now
    /\ NoSectionHeaded(req.args.blog_id,
                       IF req.op = "update_content_section"
                       THEN req.args.section_data.heading ELSE req.args.heading)

-----------------------------------------------------------------------------
(* Applications *)

\* Two stored applications name the same job with the same email.
SharePair(a, b) ==
    /\ a # b
    /\ job_applications[a].selected_job_id # <<>>
    /\ job_applications[a].email = job_applications[b].email
    /\ job_applications[a].selected_job_id = job_applications[b].selected_job_id

\* The request names a job, and an application with its email for that job
\* is stored.
AlreadyApplied(application_data) ==
    /\ application_data.selected_job_id # <<>>
    /\ \E a \in DOMAIN job_applications :
          /\ job_applications[a].email = application_data.email
          /\ job_applications[a].selected_job_id = application_data.selected_job_id

\* C16 as stated: a submission whose email and selected_job_id are those of
\* a stored application is answered 400 and changes nothing, and no two
\* stored applications share (email, selected_job_id).
C16_NoSharedPair ==
    /\ [][(Idle /\ req'.op = "create_job_application" /\ AlreadyApplied(req'.args))
             => resp'.status = 400 /\ job_applications' = job_applications]_vars
    /\ [](\A a, b \in DOMAIN job_applications : ~SharePair(a, b))

\* C16: a submission for available jobs (apply_for_available_jobs true) whose
\* email and selected_job_id are those of a stored application is answered
\* 400 and changes nothing, and no two stored applications that were both
\* submitted for available jobs share (email, selected_job_id).
C16_NoSharedPairWhenApplying ==
    /\ [][(/\ Idle
            /\ req'.op = "create_job_application"
            /\ req'.args.apply_for_available_jobs
            /\ AlreadyApplied(req'.args))
             => resp'.status = 400 /\ job_applications' = job_applications]_vars
    /\ [](\A a, b \in DOMAIN job_applications :
             (/\ job_applications[a].apply_for_available_jobs
              /\ job_applications[b].apply_for_available_jobs) => ~SharePair(a, b))

\* A second submission for the opening, still active, with the email of a
\* stored application for it, has been answered 400.
C16_Witness ==
    /\ req.op = "create_job_application"
    /\ resp.status = 400
    /\ req.args.apply_for_available_jobs
    /\ AlreadyApplied(req.args)
    /\ \E i \in DOMAIN job_openings :
          /\ job_openings[i].job_id = req.args.selected_job_id[1]
          /\ job_openings[i].is_active = "Active"

\* C17: a submission for available jobs that names no job is answered 400 and
\* stores nothing, so no stored application is one for available jobs
\* without a job.
C17_JobIdRequired ==
    /\ [][(/\ Idle
            /\ req'.op = "create_job_application"
            /\ req'.args.apply_for_available_jobs
            /\ req'.args.selected_job_id = <<>>)
             => resp'.status = 400 /\ job_applications' = job_applications]_vars
    /\ [](\A a \in DOMAIN job_applications :
             job_applications[a].apply_for_available_jobs
                 => job_applications[a].selected_job_id # <<>>)

\* Such a submission has been answered 400 while there was still room for
\* another application.
C17_Witness ==
    /\ req.op = "create_job_application"
    /\ req.args.apply_for_available_jobs
    /\ req.args.selected_job_id = <<>>
    /\ resp.status = 400
    /\ nextDocId <= MaxApplications + 1

-----------------------------------------------------------------------------
(* Job openings *)

\* Some stored opening has the job_id.
JobStored(job_id) == \E i \in DOMAIN job_openings : job_openings[i].job_id = job_id

\* The request is made with the superuser's valid token.
ByAdmin(request) == get_current_user_dependency(request.bearer).kind = "super"

\* C18: no two stored job openings share a job_id; an administrator's create
\* with a job_id that is stored, and an administrator's update that changes
\* the job_id to one another opening holds, are answered 400 and leave the
\* job_openings collection unchanged.
C18_JobIdsUnique ==
    /\ [](\A a, b \in DOMAIN job_openings :
             a # b => job_openings[a].job_id # job_openings[b].job_id)
    /\ [][(Idle /\ req'.op = "create_job_opening" /\ ByAdmin(req')
             /\ JobStored(req'.args.job_id))
            => resp'.status = 400 /\ job_openings' = job_openings]_vars
    /\ [][(Idle /\ req'.op = "update_job_opening" /\ ByAdmin(req')
             /\ \E i, k \in DOMAIN job_openings :
                   /\ i # k
                   /\ job_openings[i].job_id = req'.args.job_id
                   /\ job_openings[k].job_id = req'.args.job_data.job_id[1])
            => resp'.status = 400 /\ job_openings' = job_openings]_vars

\* What delete_job_opening and get_job_opening answer: an administrator's
\* delete of a job_id that is not stored is answered 404 and changes nothing,
\* of a stored one 204 without a body, after which no opening holds the
\* job_id; get_job_opening answers 404 exactly when no opening holds the
\* job_id.
DeleteThenGone ==
    /\ [][(Idle /\ req'.op = "delete_job_opening" /\ ByAdmin(req')) =>
             IF JobStored(req'.args.job_id)
             THEN /\ resp'.status = 204
                  /\ resp'.body = <<>>
                  /\ ~\E i \in DOMAIN job_openings' :
                         job_openings'[i].job_id = req'.args.job_id
             ELSE /\ resp'.status = 404
                  /\ job_openings' = job_openings]_vars
    /\ [](req.op = "get_job_opening" =>
             /\ resp.status \in {200, 404}
             /\ resp.status = 404 <=> ~JobStored(req.args.job_id))

\* A job_id that no opening holds is held again only after a request whose
\* operation is one of ops.
StoredAgainOnlyBy(ops) ==
    \A j \in JobPaths :
        (~JobStored(j) /\ \E i \in DOMAIN job_openings' : job_openings'[i].job_id = j)
            => req'.op \in ops

\* C19 as stated: delete and get answer as above, and a job_id that was
\* deleted is answered 404 by every get until create_job_opening stores an
\* opening with it again.
C19_GoneUntilCreated ==
    DeleteThenGone /\ [][StoredAgainOnlyBy({"create_job_opening"})]_vars

\* C19: delete and get answer as above, and a job_id that was deleted is
\* answered 404 by every get until an opening with it is stored again, by
\* create_job_opening or by an update_job_opening that gives it to another
\* opening.
C19_GoneUntilStoredAgain ==
    DeleteThenGone /\ [][StoredAgainOnlyBy({"create_job_opening", "update_job_opening"})]_vars

\* An opening has just been deleted (204) while another one stays stored;
\* no opening holds the deleted job_id.
C19_Witness ==
    /\ req.op = "delete_job_opening"
    /\ resp.status = 204
    /\ resp.body = <<>>
    /\ ~JobStored(req.args.job_id)
    /\ job_openings # <<>>

-----------------------------------------------------------------------------
(* Applications submitted at the same time *)

\* Process p is at the given place of the handler.
At(p, pc) == req[p] # NoRequest /\ req[p].pc = pc

\* C20: a process passes the duplicate check when no application with its
\* email and job is stored at that moment, and the write that follows stores
\* the application and answers 201 whatever has been stored in between; so
\* two processes that both pass the check before either writes both store
\* their application.
C20_BothStored ==
    /\ [][\A p \in Processes :
            (At(p, "existing") /\ req'[p] # NoRequest /\ req'[p].pc = "save")
                => ~AlreadyApplied(req[p].args)]_vars
    /\ [][\A p \in Processes :
            (At(p, "save") /\ req'[p] # req[p]) =>
                /\ resp'[p].status = 201
                /\ DOMAIN job_applications' = DOMAIN job_applications \cup {nextDocId}
                /\ job_applications'[nextDocId].email = req[p].args.email
                /\ job_applications'[nextDocId].selected_job_id = req[p].args.selected_job_id
                /\ \A a \in DOMAIN job_applications :
                      job_applications'[a] = job_applications[a]]_vars

\* Two processes have both answered 201 to submissions with the same email
\* for the same job, and the two applications are stored.
C20_Witness ==
    \E p, q \in Processes :
        /\ p # q
        /\ At(p, "done") /\ At(q, "done")
        /\ resp[p].status = 201 /\ resp[q].status = 201
        /\ req[p].args = req[q].args
        /\ req[p].args.apply_for_available_jobs
        /\ resp[p].body[1].id \in DOMAIN job_applications
        /\ resp[q].body[1].id \in DOMAIN job_applications
        /\ SharePair(resp[p].body[1].id, resp[q].body[1].id)

-----------------------------------------------------------------------------
(* Records created at the same time *)

\* The natural key of the document a process is about to save is held by a
\* stored document.
KeyHeld(p) ==
    IF req[p].op = "signup"
    THEN \E k \in DOMAIN users : users[k].email = req[p].doc[1].email
    ELSE IF req[p].op = "create_blog"
    THEN \E k \in DOMAIN blogs : blogs[k].slug = req[p].doc[1].slug
    ELSE \E k \in DOMAIN job_openings : job_openings[k].job_id = req[p].doc[1].job_id

NoSharedKey ==
    /\ \A a, b \in DOMAIN users : a # b => users[a].email # users[b].email
    /\ \A a, b \in DOMAIN blogs : a # b => blogs[a].slug # blogs[b].slug
    /\ \A a, b \in DOMAIN job_openings :
          a # b => job_openings[a].job_id # job_openings[b].job_id

\* C21 as stated: a process that has passed the uniqueness check succeeds
\* when it saves (201), whatever was stored since the check; so two processes
\* that both pass the check before either writes both succeed.
C21_BothSucceed ==
    [][\A p \in Processes :
          (At(p, "save") /\ req'[p] # req[p]) => resp'[p].status = 201]_vars

\* C21: two processes can both pass the uniqueness check before either
\* writes, but the unique index of the collection (email, slug, job_id)
\* refuses the save of a document whose key is held by then: that request is
\* answered 500 and stores nothing, the other save is answered 201, and no
\* two stored records share the key.
C21_IndexRefusesSecond ==
    /\ [][\A p \in Processes :
            (At(p, "save") /\ req'[p] # req[p]) =>
                IF KeyHeld(p)
                THEN /\ resp'[p].status = 500
                     /\ <<users, documents>>' = <<users, documents>>
                ELSE resp'[p].status = 201]_vars
    /\ []NoSharedKey

\* Two processes passed the check for the same key; one save was answered
\* 201, the other 500, and one record is stored.
C21_Witness ==
    \E p, q \in Processes :
        /\ At(p, "done") /\ At(q, "done")
        /\ req[p].op = "create_job_opening" /\ req[q].op = "create_job_opening"
        /\ req[p].doc # <<>> /\ req[q].doc # <<>>
        /\ resp[p].status = 201
        /\ resp[q].status = 500
        /\ Cardinality(DOMAIN job_openings) = 1

-----------------------------------------------------------------------------
(* Claims about the mail routes *)

IsNotification(m) == m.body.template \in {"email_temp.html", "cv_email_temp.html"}
IsConfirmation(m) ==
    m.body.template \in {"comfirmation_temp.html", "cv_comfirmation_temp.html"}

\* C22: a mail handler hands the notification to the SMTP server first and the
\* confirmation second, each in one attempt that is never repeated: the
\* outbox grows only by the notification at the first send and by the
\* confirmation at the second; a first send that fails ends the request with
\* 500 and the second is not attempted; a second send that fails ends it with
\* 500 while the notification of the request stays sent.
C22_NotificationThenConfirmation ==
    [][(~Idle /\ req.op \in MailOps) =>
          /\ outbox' # outbox =>
                /\ Len(outbox') = Len(outbox) + 1
                /\ SubSeq(outbox', 1, Len(outbox)) = outbox
                /\ \/ /\ req.pc = "notify"
                      /\ IsNotification(outbox'[Len(outbox')])
                      /\ req'.pc = "confirm"
                   \/ /\ req.pc = "confirm"
                      /\ IsConfirmation(outbox'[Len(outbox')])
                      /\ req'.pc = "done" /\ resp'.status = 200
          /\ (req.pc = "notify" /\ outbox' = outbox) =>
                req'.pc = "done" /\ resp'.status = 500
          /\ (req.pc = "confirm" /\ outbox' = outbox) =>
                /\ req'.pc = "done" /\ resp'.status = 500
                /\ outbox # <<>>
                /\ IsNotification(outbox[Len(outbox)])
                /\ outbox[Len(outbox)].To = req.args.email
          /\ req.pc = "done" => outbox' = outbox /\ req' = NoRequest]_vars

\* The first submission is answered 500 after its confirmation was refused:
\* its notification is the one message sent.
C22_Witness ==
    /\ MailStep("done")
    /\ resp.status = 500
    /\ Len(outbox) = 1
    /\ IsNotification(outbox[1])
    /\ ~TooLarge(req.args.files)

\* C23 as stated: a submission with a named file above 10MB is answered 400
\* at the validation of its files, and nothing is sent for it.
C23_TooLargeAnswered400 ==
    [][(MailStep("validate") /\ TooLarge(req.args.files)) =>
          /\ req'.pc = "done"
          /\ resp'.status = 400
          /\ outbox' = outbox]_vars

-----------------------------------------------------------------------------
(* Claims about timestamps *)

WritingUserOps ==
    {"signup", "update_user", "update_user_password", "update_user_status",
     "update_user_role"}

WritingDocOps ==
    {"create_blog", "update_blog", "update_blog_status", "update_blog_tags",
     "add_content_section", "update_content_section", "delete_content_section",
     "create_job_opening", "update_job_opening", "update_job_status",
     "create_job_application", "update_application_status",
     "create_project", "update_project"}

\* The document of that id, of whichever of the four collections holds it.
DocIn(docs, id) ==
    IF id \in DOMAIN docs[1] THEN docs[1][id]
    ELSE IF id \in DOMAIN docs[2] THEN docs[2][id]
    ELSE IF id \in DOMAIN docs[3] THEN docs[3][id]
    ELSE docs[4][id]

\* From one state of a collection to the next: a record that appears is
\* stamped t in both fields; one that stays keeps created_at, does not go
\* back in updated_at, and is stamped t when anything of it changed.
StampedAt(old, new, t) ==
    \A i \in DOMAIN new :
        IF i \notin DOMAIN old
        THEN new[i].created_at = t /\ new[i].updated_at = t
        ELSE /\ new[i].created_at = old[i].created_at
             /\ new[i].updated_at >= old[i].updated_at
             /\ new[i] # old[i] => new[i].updated_at = t

InOrder(store) ==
    \A i \in DOMAIN store :
        store[i].created_at <= store[i].updated_at /\ store[i].updated_at <= now

\* C24: for users, blogs, openings, applications and projects alike,
\* created_at is the time the record was first stored and no later operation
\* changes it; every operation that answers 200 or 201 after writing a record
\* leaves that record with updated_at equal to the time of the operation; so
\* created_at <= updated_at in every state and updated_at never decreases.
C24_Timestamps ==
    /\ [][/\ StampedAt(users, users', now)
          /\ StampedAt(blogs, blogs', now)
          /\ StampedAt(job_openings, job_openings', now)
          /\ StampedAt(job_applications, job_applications', now)
          /\ StampedAt(projects, projects', now)
          /\ (req' # req /\ resp'.status \in {200, 201}) =>
                /\ req'.op \in WritingUserOps =>
                      users'[resp'.body[1].id].updated_at = now
                /\ req'.op \in WritingDocOps =>
                      DocIn(documents', resp'.body[1].id).updated_at = now]_vars
    /\ [](/\ InOrder(users) /\ InOrder(blogs) /\ InOrder(job_openings)
          /\ InOrder(job_applications) /\ InOrder(projects))

\* A blog stored at minute 0 had its status changed half an hour later.
C24_Witness ==
    /\ req.op = "update_blog_status"
    /\ resp.status = 200
    /\ now = ACCESS_TOKEN_EXPIRE_MINUTES
    /\ 1 \in DOMAIN blogs
    /\ blogs[1].created_at = 0
    /\ blogs[1].updated_at = now

-----------------------------------------------------------------------------
(* Claims about sections of one heading *)

\* The places of the sections whose heading is the given one, letter case
\* apart.
Headed(content, heading) ==
    {k \in DOMAIN content : Lower(content[k].heading) = Lower(heading)}

\* The content is the old one with the section at place k replaced by one
\* that carries what the request asked for.
OnlyRewritten(old, new, k, section_data) ==
    /\ Len(new) = Len(old)
    /\ \A l \in DOMAIN old : l # k => new[l] = old[l]
    /\ new[k].description = IF section_data.description # <<>>
                            THEN section_data.description[1] ELSE old[k].description
    /\ new[k].heading = IF section_data.new_heading # <<>>
                        THEN section_data.new_heading[1] ELSE old[k].heading
    /\ new[k].sub_sections = old[k].sub_sections

\* The content is the old one without the section at place k.
OnlyRemoved(old, new, k) ==
    /\ Len(new) = Len(old) - 1
    /\ \A l \in DOMAIN new : new[l] = IF l < k THEN old[l] ELSE old[l + 1]

\* C25: where several sections of a blog carry the heading asked for (letter
\* case apart), update_content_section rewrites and delete_content_section
\* removes the first of them in list order and nothing else: every other
\* section is as it was, in the same order.
C25_FirstOfEqualHeadings ==
    [][(/\ req' # req
        /\ req'.op \in {"update_content_section", "delete_content_section"}
        /\ resp'.status = 200) =>
          LET id == req'.args.blog_id
              old == blogs[id].content
              new == blogs'[id].content
              heading == IF req'.op = "update_content_section"
                         THEN req'.args.section_data.heading
                         ELSE req'.args.heading
              hit == Headed(old, heading)
              first == CHOOSE k \in hit : \A l \in hit : k <= l
          IN  /\ hit # {}
              /\ IF req'.op = "update_content_section"
                 THEN OnlyRewritten(old, new, first, req'.args.section_data)
                 ELSE OnlyRemoved(old, new, first)]_vars

\* Two sections were headed "Intro", the second one after "Other" was renamed;
\* the delete of "intro" took the first and left the second, which still
\* carries the heading.
C25_Witness ==
    /\ req.op = "delete_content_section"
    /\ resp.status = 200
    /\ req.args.heading = "intro"
    /\ blogs[req.args.blog_id].content =
          <<[SectionOther EXCEPT !.heading = "Intro"]>>

-----------------------------------------------------------------------------
(* Claims about the loop of ensure_unique_slug *)

\* C26: whatever blogs are stored, ensure_unique_slug returns: it makes at
\* most one query more than there are stored blogs, and no blog other than
\* the excluded one holds the slug it returns; so does the call made by a
\* create_blog or update_blog that was answered.
C26_SlugLoopEnds ==
    /\ Idle => \A x \in {SlugHello, SlugHello1}, exclude_id \in {0} \cup DOMAIN blogs :
                  /\ SlugLookups(x, x, 1, exclude_id) <= Cardinality(DOMAIN blogs) + 1
                  /\ ~SlugTaken(ensure_unique_slug(x, exclude_id), exclude_id)
    /\ (req.op \in {"create_blog", "update_blog"} /\ resp.status \in {200, 201}) =>
          LET id == resp.body[1].id
          IN  ~SlugTaken(blogs[id].slug, id)

\* The third blog deriving hello-world was stored as hello-world-2 after
\* three queries; a fourth would take four, one more than the blogs stored.
C26_Witness ==
    /\ req.op = "create_blog"
    /\ resp.status = 201
    /\ DOMAIN blogs = {1, 2, 3}
    /\ blogs[3].slug = Suffixed(SlugHello, 2)
    /\ SlugLookups(SlugHello, SlugHello, 1, 0) = Cardinality(DOMAIN blogs) + 1

-----------------------------------------------------------------------------
(* Claims about accounts that were switched off *)

\* The stored user a login with that name is about, 0 if none.
LoginOf(username) == FirstByEmail(Lower(username))

\* The request handled in this step bears a valid token whose subject is the
\* email of a stored admin who is not active.
BearsInactiveAdminToken ==
    /\ req' # req
    /\ req'.bearer # <<>>
    /\ req'.bearer[1].sig
    /\ req'.bearer[1].exp >= now
    /\ \E i \in DOMAIN users :
          /\ users[i].email = req'.bearer[1].sub
          /\ users[i].role = ADMIN
          /\ ~users[i].is_active

\* The login handled in this step names a stored user who is not active.
LoginOfInactive ==
    /\ req' # req
    /\ req'.op = "login"
    /\ LoginOf(req'.args.username) # 0
    /\ ~users[LoginOf(req'.args.username)].is_active

\* C27 as stated: once a stored admin is not active, every login that names
\* them is answered 401, and a valid token of theirs is still let through
\* every protected route (never 401, never 403).
C27_InactiveLoginAlways401 ==
    [][/\ LoginOfInactive => resp'.status = 401
       /\ BearsInactiveAdminToken => resp'.status \notin {401, 403}]_vars

\* C27: get_current_user and validate_admin_permissions do not look at
\* is_active: once a stored admin is not active, a valid token of theirs is
\* still let through every protected route (never 401, never 403), while a
\* login that names them is answered 401, unless it gives the configured
\* superuser's email and password, which log in as the superuser.
C27_InactiveKeepsToken ==
    [][/\ LoginOfInactive =>
             IF /\ req'.args.username = SUPERUSER_EMAIL
                /\ req'.args.password = SUPERUSER_PASSWORD
             THEN resp'.status = 200
             ELSE resp'.status = 401
       /\ BearsInactiveAdminToken => resp'.status \notin {401, 403}]_vars

\* John, an admin, was switched off; the token he got before has just listed
\* the users.
C27_Witness ==
    /\ req.op = "get_all_users"
    /\ resp.status = 200
    /\ req.bearer[1].uid = 1
    /\ req.bearer[1].sub = EmailJohn
    /\ 1 \in DOMAIN users
    /\ users[1].email = EmailJohn
    /\ users[1].role = ADMIN
    /\ ~users[1].is_active

-----------------------------------------------------------------------------
(* Claims about whom a token stands for *)

\* The request handled last bore a token that is signed and not expired.
BoreValidToken ==
    /\ req.bearer # <<>>
    /\ req.bearer[1].sig
    /\ req.bearer[1].exp >= now

\* C28: a valid token whose subject is the configured superuser email is
\* resolved to the superuser, also when login issued it to a stored user of
\* that email: /me answers it with the superuser's record. Such a user can
\* be stored: signup and update_user refuse that email only when a stored
\* user holds it already.
C28_SuperuserEmailIsSuperuser ==
    /\ \A t \in tokens :
          (t.sub = SUPERUSER_EMAIL /\ t.exp >= now) =>
              get_current_user(Signed(t)) = superUser
    /\ (req.op = "me" /\ BoreValidToken /\ req.bearer[1].sub = SUPERUSER_EMAIL) =>
          resp.status = 200 /\ resp.body = <<SuperUserResponse>>
    /\ (req.op = "signup" /\ req.args.email = SUPERUSER_EMAIL /\ resp.status # 201) =>
          FirstByEmail(SUPERUSER_EMAIL) # 0
    /\ (/\ req.op = "update_user" /\ BoreValidToken
        /\ req.bearer[1].sub = SUPERUSER_EMAIL
        /\ req.args.user_id \in DOMAIN users
        /\ req.args.user_data.email = <<SUPERUSER_EMAIL>>
        /\ resp.status # 200) =>
          /\ FirstByEmail(SUPERUSER_EMAIL) # 0
          /\ FirstByEmail(SUPERUSER_EMAIL) # req.args.user_id

\* A user signed up with the superuser email and another password, was made
\* active and logged in; /me has answered their token with the superuser's
\* record.
C28_Witness ==
    /\ req.op = "me"
    /\ resp.status = 200
    /\ req.bearer[1].sub = SUPERUSER_EMAIL
    /\ req.bearer[1].uid = 1
    /\ 1 \in DOMAIN users
    /\ users[1].email = SUPERUSER_EMAIL
    /\ ~verify_password(SUPERUSER_PASSWORD, users[1].password)
    /\ resp.body[1].id = SUPERUSER_ID

\* C29: a valid token whose subject is not the superuser email stands for
\* whichever stored user holds that email now, not for the record login
\* issued it to: /me answers with that user's record and an admin route
\* answers 403 exactly when that user's role is not admin; with no such user
\* the token is refused.
C29_TokenFollowsEmail ==
    /\ \A t \in tokens :
          (t.sub # SUPERUSER_EMAIL /\ t.exp >= now) =>
              get_current_user(Signed(t)) =
                  IF FirstByEmail(t.sub) = 0 THEN NoIdentity
                  ELSE StoredUser(FirstByEmail(t.sub))
    /\ (/\ req.op \in {"me", "get_all_users"}
        /\ BoreValidToken
        /\ req.bearer[1].sub # SUPERUSER_EMAIL) =>
          LET i == FirstByEmail(req.bearer[1].sub)
          IN  IF i = 0 THEN resp.status = 401
              ELSE IF req.op = "me"
              THEN resp.status = 200 /\ resp.body = <<UserResponse(i, users[i])>>
              ELSE resp.status = 403 <=> users[i].role # ADMIN

\* John, an admin, got a token and then took another email; a second account
\* signed up with John's old email as a plain user, and the admin route has
\* just refused John's token with 403.
C29_Witness ==
    /\ req.op = "get_all_users"
    /\ resp.status = 403
    /\ req.bearer[1].sub = EmailJohn
    /\ req.bearer[1].uid = 1
    /\ req.bearer[1].exp >= now
    /\ 1 \in DOMAIN users
    /\ users[1].email # EmailJohn
    /\ users[1].role = ADMIN
    /\ 2 \in DOMAIN users
    /\ users[2].email = EmailJohn
    /\ users[2].role = USER

-----------------------------------------------------------------------------
(* Claims about blogs that are not published *)

\* The blogs the response handled last carries.
BlogsReturned ==
    IF resp.status # 200 THEN {}
    ELSE IF req.op = "get_blogs"
    THEN {resp.body[1].blogs[k] : k \in DOMAIN resp.body[1].blogs}
    ELSE {resp.body[1]}

\* C30: whatever was created, updated and changed in status, a blog that is
\* not published is returned to administrators only: the public list holds
\* published blogs only, get_blog_by_slug answers 404 for it, and so does
\* get_blog for a stored user who is not an admin.
C30_UnpublishedForAdminsOnly ==
    /\ req.op \in {"get_blogs", "get_blog_by_slug", "get_blog"} =>
          \A b \in BlogsReturned :
              /\ b.id \in DOMAIN blogs
              /\ b = convert_blog_to_response(b.id, blogs[b.id])
              /\ b.is_published # "published" =>
                    /\ req.op = "get_blog"
                    /\ IsAdmin(get_current_user_dependency(req.bearer))
    /\ (/\ req.op = "get_blog_by_slug"
        /\ \E i \in DOMAIN blogs :
              blogs[i].slug = req.args.slug /\ blogs[i].is_published # "published") =>
          resp.status = 404
    /\ (/\ req.op = "get_blog"
        /\ req.args.blog_id \in DOMAIN blogs
        /\ blogs[req.args.blog_id].is_published # "published"
        /\ get_current_user_dependency(req.bearer).kind = "user"
        /\ ~IsAdmin(get_current_user_dependency(req.bearer))) =>
          resp.status = 404

\* A blog created as a draft was archived; the public route has just answered
\* 404 for its slug.
C30_Witness ==
    /\ req.op = "get_blog_by_slug"
    /\ resp.status = 404
    /\ \E i \in DOMAIN blogs :
          /\ blogs[i].slug = req.args.slug
          /\ blogs[i].is_published = "archived"

====
